---- MODULE Spec2Model ----
(***************************************************************************)
(* Door-opener controller (ESP8266 D1 mini, Telegram bot, web portal).     *)
(* Model of Apriporta_Telegram_D1Mini.ino: the persisted configuration,    *)
(* the boot / Operational / Configuration mode machine, the portal         *)
(* handlers, the command router with its authorization gate, the relay     *)
(* timeout scheduler, the operation log and the debounced button.          *)
(*                                                                         *)
(* Conventions.                                                            *)
(*  - A C string (char array or Arduino String) is the sequence of its     *)
(*    characters before the first NUL; a character is a one-letter string. *)
(*  - An unsigned long (32 bits on the ESP8266) is a pair <<hi, lo>> of    *)
(*    16-bit halves, with arithmetic modulo 2^32 (U32Add, U32Sub, U32Gt).  *)
(*  - A long (32 bits, signed) is an integer in LONG_MIN..LONG_MAX.        *)
(*  - Every C function is an operator from a device state d (a record of   *)
(*    all globals, the EEPROM, the pins and the clock) to the device state *)
(*    after the call; d.out collects the externally visible effects of the *)
(*    running handler, in order.                                           *)
(*  - The display, the status LED and the buzzer tones are write-only      *)
(*    peripherals and are not part of the state; the time the melodies     *)
(*    block for is.                                                        *)
(*  - Three fields of the device state are not program variables:          *)
(*    recorded, the entries passed to logOperation since the log was last  *)
(*    reset, newest first; resetPinSince, the value of millis() when the   *)
(*    level on the configuration button last changed; edgeLog, the falling *)
(*    edges on the door button since reset, newest first, each with the    *)
(*    value of millis() and whether the interrupt handler accepted it.     *)
(***************************************************************************)
EXTENDS Integers, Sequences, FiniteSets, TLC

\* ------------------------------------------------------------------------
\* Program constants
\* ------------------------------------------------------------------------
MAX_SSID_LEN == 32
MAX_PASS_LEN == 64
MAX_TOKEN_LEN == 64
MAX_PASSCFG_LEN == 32
MAX_USERS_LEN == 128
MAX_USERS == 10
PORTA_TIMEOUT == 1000
LUCE_TIMEOUT == 1000
BOT_REQUEST_DELAY == 500
interruptDebounceDelay == 100
LOG_SIZE == 5
LONG_MAX == 2147483647
LONG_MIN == -LONG_MAX - 1
LONG_PRESS_MS == 3000
WIFI_CHECK_MS == 30000
JOIN_ATTEMPTS == 30

LOW == 0
HIGH == 1

\* ------------------------------------------------------------------------
\* Bounds of the model
\* ------------------------------------------------------------------------
\* Steps in which time passes (a poll that blocks, an idle spin) per power
\* cycle.
MaxElapse == 1
\* Poll cycles that receive remote items, per power cycle.
MaxEvents == 1
\* Edges on the door button per power cycle.
MaxEdges == 1
\* Calls of logOperation per power cycle in the log scenario.
MaxRecords == 6
\* Edges on the door button per power cycle in the scenario of the buttons.
MaxPresses == 2

\* ------------------------------------------------------------------------
\* Strings
\* ------------------------------------------------------------------------
Min(a, b) == IF a < b THEN a ELSE b

Rep(c, n) == [i \in 1..n |-> c]

Digits == <<"0", "1", "2", "3", "4", "5", "6", "7", "8", "9">>

IsDigit(c) == \E i \in 1..10 : Digits[i] = c

DigitVal(c) == (CHOOSE i \in 1..10 : Digits[i] = c) - 1

IsSpace(c) == c \in {" ", "\t", "\n", "\r"}

\* strncpy(dst, src, n) into a destination whose byte n is NUL (zeroed by
\* memset or terminated by loadConfig): at most n characters are kept.
strncpy(src, n) == SubSeq(src, 1, Min(Len(src), n))

\* ------------------------------------------------------------------------
\* unsigned long arithmetic (32 bits, as two 16-bit halves)
\* ------------------------------------------------------------------------
B16 == 65536

\* The unsigned long with value n, for 0 <= n < 2^31.
U32(n) == <<n \div B16, n % B16>>

U32Zero == <<0, 0>>

U32Add(a, b) ==
  LET lo == a[2] + b[2]
      hi == a[1] + b[1] + (lo \div B16)
  IN <<hi % B16, lo % B16>>

U32Sub(a, b) ==
  LET lo == a[2] - b[2]
      hi == a[1] - b[1] - (IF lo < 0 THEN 1 ELSE 0)
  IN <<hi % B16, lo % B16>>

U32Gt(a, b) == a[1] > b[1] \/ (a[1] = b[1] /\ a[2] > b[2])

\* ------------------------------------------------------------------------
\* atol / String::toInt and strtok
\* ------------------------------------------------------------------------
\* Accumulates decimal digits of s from position i on, saturating at
\* LONG_MAX (neg = FALSE) or at -LONG_MIN (neg = TRUE, returned negated).
RECURSIVE AtolDigits(_, _, _, _)
AtolDigits(s, i, acc, neg) ==
  IF i > Len(s) \/ ~IsDigit(s[i])
    THEN (IF neg THEN -acc ELSE acc)
    ELSE LET v == DigitVal(s[i])
             over == acc > (LONG_MAX - v) \div 10
         IN IF over
              THEN (IF neg THEN LONG_MIN ELSE LONG_MAX)
              ELSE AtolDigits(s, i + 1, acc * 10 + v, neg)

RECURSIVE SkipSpace(_, _)
SkipSpace(s, i) == IF i <= Len(s) /\ IsSpace(s[i]) THEN SkipSpace(s, i + 1) ELSE i

\* atol(s): strtol(s, NULL, 10) of the C library; the result is a long.
atol(s) ==
  LET i == SkipSpace(s, 1)
      signed == i <= Len(s) /\ s[i] \in {"-", "+"}
      neg == i <= Len(s) /\ s[i] = "-"
  IN AtolDigits(s, IF signed THEN i + 1 ELSE i, 0, neg)

\* String::toInt(): atol of the buffer.
toInt(s) == atol(s)

\* The tokens the successive strtok(.., ",") calls return: the maximal runs
\* of characters other than the delimiter, in order (empty runs are
\* skipped). A token starts where a non-delimiter follows a delimiter or
\* the start of the string, and ends before the next delimiter.
strtok(s) ==
  LET starts == {i \in 1..Len(s) : s[i] # "," /\ (i = 1 \/ s[i - 1] = ",")}
      EndOf(i) == CHOOSE j \in i..Len(s) :
                    /\ \A k \in i..j : s[k] # ","
                    /\ (j = Len(s) \/ s[j + 1] = ",")
      Start(k) == CHOOSE i \in starts : Cardinality({h \in starts : h < i}) = k - 1
  IN [k \in 1..Cardinality(starts) |-> SubSeq(s, Start(k), EndOf(Start(k)))]

\* ------------------------------------------------------------------------
\* Configuration record and EEPROM
\* ------------------------------------------------------------------------
admin == <<"a", "d", "m", "i", "n">>

\* memset(&userConfig, 0, sizeof(userConfig)); the flag is a byte.
ZeroConfig ==
  [ssid |-> <<>>, password |-> <<>>, botToken |-> <<>>,
   configPassword |-> <<>>, authorizedUsers |-> <<>>, configured |-> 0]

\* True when the build takes the flag byte b for `true`. A bool object
\* holding a byte other than 0 and 1 has no defined value: ub is what the
\* build does with it.
IsTrue(b, ub) == b = 1 \/ (b \notin {0, 1} /\ ub)

Emit(d, e) == [d EXCEPT !.out = Append(@, e)]

delay(d, ms) == [d EXCEPT !.millis = U32Add(@, U32(ms))]

\* Variant: a record that is not configured only has its flag cleared.
loadConfigKeepingFields(d) ==
  LET raw == d.eeprom
      term == [ssid |-> strncpy(raw.ssid, MAX_SSID_LEN - 1),
               password |-> strncpy(raw.password, MAX_PASS_LEN - 1),
               botToken |-> strncpy(raw.botToken, MAX_TOKEN_LEN - 1),
               configPassword |-> strncpy(raw.configPassword, MAX_PASSCFG_LEN - 1),
               authorizedUsers |-> strncpy(raw.authorizedUsers, MAX_USERS_LEN - 1),
               configured |-> raw.configured]
      zeroed == IF ~IsTrue(term.configured, d.ub) THEN [term EXCEPT !.configured = 0] ELSE term
      withPw == IF zeroed.configPassword = <<>>
                  THEN [zeroed EXCEPT !.configPassword = strncpy(admin, MAX_PASSCFG_LEN - 1)]
                  ELSE zeroed
  IN [d EXCEPT !.userConfig = withPw]

loadConfig(d) ==
  LET raw == d.eeprom
      term == [ssid |-> strncpy(raw.ssid, MAX_SSID_LEN - 1),
               password |-> strncpy(raw.password, MAX_PASS_LEN - 1),
               botToken |-> strncpy(raw.botToken, MAX_TOKEN_LEN - 1),
               configPassword |-> strncpy(raw.configPassword, MAX_PASSCFG_LEN - 1),
               authorizedUsers |-> strncpy(raw.authorizedUsers, MAX_USERS_LEN - 1),
               configured |-> raw.configured]
      zeroed == IF ~IsTrue(term.configured, d.ub) THEN ZeroConfig ELSE term
      withPw == IF zeroed.configPassword = <<>>
                  THEN [zeroed EXCEPT !.configPassword = strncpy(admin, MAX_PASSCFG_LEN - 1)]
                  ELSE zeroed
  IN [d EXCEPT !.userConfig = withPw]

saveConfig(d) == [d EXCEPT !.eeprom = d.userConfig]

resetEEPROM(d) == [d EXCEPT !.eeprom = ZeroConfig]

parseAuthorizedUsers(d) ==
  LET usersCopy == strncpy(d.userConfig.authorizedUsers, MAX_USERS_LEN - 1)
      tokens == strtok(usersCopy)
      n == Min(Len(tokens), MAX_USERS)
  IN [d EXCEPT !.authorizedUsers = [i \in 1..n |-> atol(tokens[i])]]

\* Variant: with no identifier stored, every origin is accepted.
isAuthorizedUserOpenWhenEmpty(d, chat_id) ==
  \/ d.authorizedUsers = <<>>
  \/ \E i \in 1..Len(d.authorizedUsers) : d.authorizedUsers[i] = chat_id

isAuthorizedUser(d, chat_id) ==
  \E i \in 1..Len(d.authorizedUsers) : d.authorizedUsers[i] = chat_id

\* ------------------------------------------------------------------------
\* Power-on state and restart
\* ------------------------------------------------------------------------
EmptyLogEntry == [timestamp |-> U32Zero, chatId |-> 0, operation |-> "", userName |-> ""]

\* The device right after reset, before setup() runs: every global has its
\* initializer (zero where none is written), the outputs are not driven,
\* millis() restarts from 0. The EEPROM and the inputs are kept.
PowerOn(eeprom, ub, resetPin, wifiStatus) ==
  [eeprom |-> eeprom, ub |-> ub, resetPin |-> resetPin, wifiStatus |-> wifiStatus,
   pc |-> "boot", millis |-> U32Zero, out |-> <<>>,
   userConfig |-> ZeroConfig, authorizedUsers |-> <<>>, passwordOk |-> FALSE,
   portaOpenTime |-> U32Zero, luceOnTime |-> U32Zero,
   relayPorta |-> LOW, relayLuce |-> LOW,
   operationLog |-> [i \in 1..LOG_SIZE |-> EmptyLogEntry],
   buttonInterruptFlag |-> FALSE, lastInterruptTime |-> U32Zero,
   resetButtonPressTime |-> U32Zero, configModeRequested |-> FALSE,
   lastTimeBotRan |-> U32Zero, lastCheck |-> U32Zero,
   wifiOk |-> FALSE, telegramOk |-> FALSE,
   recorded |-> <<>>, resetPinSince |-> U32Zero, edgeLog |-> <<>>]

\* ESP.restart()
restart(d) ==
  [PowerOn(d.eeprom, d.ub, d.resetPin, d.wifiStatus) EXCEPT !.out = Append(d.out, <<"restart">>)]

\* ------------------------------------------------------------------------
\* Configuration portal (requests are records of the submitted arguments)
\* ------------------------------------------------------------------------
hasArg(req, name) == name \in DOMAIN req

\* Variant: the wipe is refused without the authenticated flag.
handleResetEEPROMGuarded(d) ==
  IF ~d.passwordOk
    THEN Emit(d, <<"http", 403, "unauthorized">>)
    ELSE restart(delay(Emit(resetEEPROM(d), <<"http", 200, "eeprom_reset">>), 2000))

handleResetEEPROM(d) ==
  restart(delay(Emit(resetEEPROM(d), <<"http", 200, "eeprom_reset">>), 2000))

\* Variant: the form is served whatever the authenticated flag.
handleRootOpen(d) ==
  Emit(d, <<"http", 200, "form", d.userConfig.ssid, d.userConfig.password,
            d.userConfig.botToken, d.userConfig.authorizedUsers>>)

handleRoot(d) ==
  IF ~d.passwordOk
    THEN Emit(d, <<"http", 200, "login">>)
    ELSE Emit(d, <<"http", 200, "form", d.userConfig.ssid, d.userConfig.password,
                   d.userConfig.botToken, d.userConfig.authorizedUsers>>)

\* Variant: any submitted cfgpass is accepted.
handleLoginAny(d, req) ==
  IF hasArg(req, "cfgpass")
    THEN Emit([d EXCEPT !.passwordOk = TRUE], <<"http", 302, "/">>)
    ELSE Emit(d, <<"http", 403, "wrong_password">>)

handleLogin(d, req) ==
  IF hasArg(req, "cfgpass") /\ req.cfgpass = d.userConfig.configPassword
    THEN Emit([d EXCEPT !.passwordOk = TRUE], <<"http", 302, "/">>)
    ELSE Emit(d, <<"http", 403, "wrong_password">>)

\* Variant: the authenticated flag is not tested.
handleSaveUnchecked(d, req) ==
  IF hasArg(req, "ssid") /\ hasArg(req, "pass") /\ hasArg(req, "token") /\ hasArg(req, "users")
    THEN LET cfg == [d.userConfig EXCEPT
                       !.ssid = strncpy(req.ssid, MAX_SSID_LEN - 1),
                       !.password = strncpy(req.pass, MAX_PASS_LEN - 1),
                       !.botToken = strncpy(req.token, MAX_TOKEN_LEN - 1),
                       !.authorizedUsers = strncpy(req.users, MAX_USERS_LEN - 1),
                       !.configured = 1]
             saved == saveConfig([d EXCEPT !.userConfig = cfg])
         IN restart(delay(Emit(saved, <<"http", 200, "saved">>), 2000))
    ELSE Emit(d, <<"http", 400, "missing_parameters">>)

handleSave(d, req) ==
  IF ~d.passwordOk
    THEN Emit(d, <<"http", 403, "unauthorized">>)
    ELSE IF hasArg(req, "ssid") /\ hasArg(req, "pass") /\ hasArg(req, "token") /\ hasArg(req, "users")
      THEN LET cfg == [d.userConfig EXCEPT
                         !.ssid = strncpy(req.ssid, MAX_SSID_LEN - 1),
                         !.password = strncpy(req.pass, MAX_PASS_LEN - 1),
                         !.botToken = strncpy(req.token, MAX_TOKEN_LEN - 1),
                         !.authorizedUsers = strncpy(req.users, MAX_USERS_LEN - 1),
                         !.configured = 1]
               saved == saveConfig([d EXCEPT !.userConfig = cfg])
           IN restart(delay(Emit(saved, <<"http", 200, "saved">>), 2000))
      ELSE Emit(d, <<"http", 400, "missing_parameters">>)

handleNotFound(d) == Emit(d, <<"http", 302, "/">>)

handleChangePassword(d) == Emit(d, <<"http", 200, "changepw_form">>)

\* Variant: the device restarts after the secret was changed.
handleChangePasswordPostRestarting(d, req) ==
  IF ~hasArg(req, "oldpw") \/ ~hasArg(req, "newpw") \/ ~hasArg(req, "newpw2")
    THEN Emit(d, <<"http", 400, "missing_parameters">>)
    ELSE IF req.oldpw # d.userConfig.configPassword
      THEN Emit(d, <<"http", 403, "wrong_old_password">>)
      ELSE IF req.newpw # req.newpw2
        THEN Emit(d, <<"http", 400, "mismatch">>)
        ELSE LET cfg == [d.userConfig EXCEPT
                           !.configPassword = strncpy(req.newpw, MAX_PASSCFG_LEN - 1)]
             IN restart(Emit(saveConfig([d EXCEPT !.userConfig = cfg]),
                             <<"http", 200, "password_updated">>))

handleChangePasswordPost(d, req) ==
  IF ~hasArg(req, "oldpw") \/ ~hasArg(req, "newpw") \/ ~hasArg(req, "newpw2")
    THEN Emit(d, <<"http", 400, "missing_parameters">>)
    ELSE IF req.oldpw # d.userConfig.configPassword
      THEN Emit(d, <<"http", 403, "wrong_old_password">>)
      ELSE IF req.newpw # req.newpw2
        THEN Emit(d, <<"http", 400, "mismatch">>)
        ELSE LET cfg == [d.userConfig EXCEPT
                           !.configPassword = strncpy(req.newpw, MAX_PASSCFG_LEN - 1)]
             IN Emit(saveConfig([d EXCEPT !.userConfig = cfg]), <<"http", 200, "password_updated">>)

\* Variant: the portal opens with the authenticated flag set.
setupAPOpen(d) == Emit([d EXCEPT !.passwordOk = TRUE, !.pc = "config"], <<"ap", "ESP_Config">>)

\* setupAP(): access point, DNS responder and the portal routes; the device
\* then serves requests forever (pc = "config").
setupAP(d) == Emit([d EXCEPT !.passwordOk = FALSE, !.pc = "config"], <<"ap", "ESP_Config">>)

\* ------------------------------------------------------------------------
\* Audible feedback: only the time the melodies block for
\* ------------------------------------------------------------------------
confirmationBeep(d) == delay(Emit(d, <<"beep", "confirmation">>), 1250)

successBeep(d) == delay(Emit(d, <<"beep", "success">>), 2750)

errorBeep(d) == delay(Emit(d, <<"beep", "error">>), 280)

\* ------------------------------------------------------------------------
\* Operation log
\* ------------------------------------------------------------------------
initializeLog(d) ==
  [d EXCEPT !.operationLog = [i \in 1..LOG_SIZE |-> EmptyLogEntry], !.recorded = <<>>]

\* Variant: the new entry overwrites slot 0 and nothing is shifted.
logOperationNoShift(d, chatId, operation, userName) ==
  LET entry == [timestamp |-> d.millis, chatId |-> chatId,
                operation |-> operation, userName |-> userName]
  IN [d EXCEPT !.operationLog = [@ EXCEPT ![1] = entry],
               !.recorded = <<entry>> \o @]

\* Slot i of the source is index i + 1 here.
logOperation(d, chatId, operation, userName) ==
  LET entry == [timestamp |-> d.millis, chatId |-> chatId,
                operation |-> operation, userName |-> userName]
  IN [d EXCEPT !.operationLog = <<entry>> \o SubSeq(@, 1, LOG_SIZE - 1),
               !.recorded = <<entry>> \o @]

\* ago / 1000 on an unsigned long; the quotient is below 2^23.
U32Div1000(a) ==
  LET q1 == a[1] \div 1000
      r1 == a[1] % 1000
  IN q1 * B16 + ((r1 * B16 + a[2]) \div 1000)

formatTimeAgo(ago) ==
  LET seconds == U32Div1000(ago)
      minutes == seconds \div 60
      hours == minutes \div 60
      days == hours \div 24
  IN IF seconds < 60 THEN <<seconds, "secondi fa">>
     ELSE IF minutes < 60 THEN <<minutes, "minuti fa">>
     ELSE IF hours < 24 THEN <<hours, "ore fa">>
     ELSE <<days, "giorni fa">>

\* The report lists the first validEntries slots, validEntries being the
\* number of slots whose timestamp is non-zero.
getFormattedLog(d) ==
  LET validEntries == Cardinality({i \in 1..LOG_SIZE : U32Gt(d.operationLog[i].timestamp, U32Zero)})
  IN [i \in 1..validEntries |->
        <<IF d.operationLog[i].operation = "LUCE_ACCESA" THEN "LUCE ACCESA" ELSE "PORTA APERTA",
          d.operationLog[i].userName,
          formatTimeAgo(U32Sub(d.millis, d.operationLog[i].timestamp))>>]

getDetailedSystemStatus(d) ==
  <<d.wifiStatus,
    IF U32Gt(d.portaOpenTime, U32Zero) THEN "Aperta" ELSE "Chiusa",
    IF U32Gt(d.luceOnTime, U32Zero) THEN "Accesa" ELSE "Spenta",
    Len(d.authorizedUsers)>>

\* ------------------------------------------------------------------------
\* Relays and the timeout scheduler
\* ------------------------------------------------------------------------
\* Variant: an activation while armed keeps the first timestamp.
apriPortaKeepsFirst(d) ==
  Emit([d EXCEPT !.relayPorta = HIGH,
                 !.portaOpenTime = IF @ # U32Zero THEN @ ELSE d.millis],
       <<"relay", "porta", HIGH>>)

apriPorta(d) ==
  Emit([d EXCEPT !.relayPorta = HIGH, !.portaOpenTime = d.millis], <<"relay", "porta", HIGH>>)

\* Variant: one timer for both actuators.
accendiLuceSharedTimer(d) ==
  Emit([d EXCEPT !.relayLuce = HIGH, !.luceOnTime = d.millis, !.portaOpenTime = d.millis],
       <<"relay", "luce", HIGH>>)

accendiLuce(d) ==
  Emit([d EXCEPT !.relayLuce = HIGH, !.luceOnTime = d.millis], <<"relay", "luce", HIGH>>)

\* Variant: the tick compares the counter with the time the actuator is
\* due to be released at.
handleTimeoutsAbsolute(d) ==
  LET p == IF U32Gt(d.portaOpenTime, U32Zero)
              /\ U32Gt(d.millis, U32Add(d.portaOpenTime, U32(PORTA_TIMEOUT)))
             THEN Emit([d EXCEPT !.relayPorta = LOW, !.portaOpenTime = U32Zero],
                       <<"relay", "porta", LOW>>)
             ELSE d
  IN IF U32Gt(p.luceOnTime, U32Zero)
        /\ U32Gt(p.millis, U32Add(p.luceOnTime, U32(LUCE_TIMEOUT)))
       THEN Emit([p EXCEPT !.relayLuce = LOW, !.luceOnTime = U32Zero],
                 <<"relay", "luce", LOW>>)
       ELSE p

handleTimeouts(d) ==
  LET p == IF U32Gt(d.portaOpenTime, U32Zero)
              /\ U32Gt(U32Sub(d.millis, d.portaOpenTime), U32(PORTA_TIMEOUT))
             THEN Emit([d EXCEPT !.relayPorta = LOW, !.portaOpenTime = U32Zero],
                       <<"relay", "porta", LOW>>)
             ELSE d
  IN IF U32Gt(p.luceOnTime, U32Zero)
        /\ U32Gt(U32Sub(p.millis, p.luceOnTime), U32(LUCE_TIMEOUT))
       THEN Emit([p EXCEPT !.relayLuce = LOW, !.luceOnTime = U32Zero],
                 <<"relay", "luce", LOW>>)
       ELSE p

\* ------------------------------------------------------------------------
\* Command router (a remote item is [type, chat_id, text, from_name])
\* ------------------------------------------------------------------------
sendMessage(d, chat_id, what) == Emit(d, <<"tg", what, chat_id>>)

answerCallbackQuery(d, what) == Emit(d, <<"cb", what>>)

sendMainMenu(d, chat_id) == sendMessage(d, chat_id, "menu")

sendWelcomeMessage(d, chat_id) ==
  sendMainMenu(delay(sendMessage(d, chat_id, "welcome"), 500), chat_id)

handleApriPorta(d, chat_id, from_name, user_id) ==
  LET a == apriPorta(d)
      b == sendMessage(a, chat_id, "porta_aperta")
      c == logOperation(b, user_id, "PORTA_APERTA", from_name)
      e == confirmationBeep(Emit(c, <<"log", user_id, "PORTA_APERTA", from_name>>))
  IN sendMainMenu(delay(e, 2000), chat_id)

handleAccendiLuce(d, chat_id, from_name, user_id) ==
  LET a == accendiLuce(d)
      b == sendMessage(a, chat_id, "luce_accesa")
      c == logOperation(b, user_id, "LUCE_ACCESA", from_name)
      e == confirmationBeep(Emit(c, <<"log", user_id, "LUCE_ACCESA", from_name>>))
  IN sendMainMenu(delay(e, 2000), chat_id)

handleStatoSistema(d, chat_id) ==
  sendMainMenu(delay(Emit(d, <<"tg", "stato", chat_id, getDetailedSystemStatus(d)>>), 1000), chat_id)

handleMostraLog(d, chat_id) ==
  sendMainMenu(delay(Emit(d, <<"tg", "log", chat_id, getFormattedLog(d)>>), 1000), chat_id)

sendHelpMessage(d, chat_id) ==
  sendMainMenu(delay(sendMessage(d, chat_id, "help"), 1000), chat_id)

handleUnknownCommand(d, chat_id) == sendMessage(d, chat_id, "comando_non_riconosciuto")

\* Variant: an origin that is denied is added to the authorized set.
handleUnauthorizedUserEnrolling(d, chat_id, from_name) ==
  errorBeep(sendMessage([d EXCEPT !.authorizedUsers = Append(@, toInt(chat_id))],
                        chat_id, "accesso_negato"))

handleUnauthorizedUser(d, chat_id, from_name) ==
  errorBeep(sendMessage(d, chat_id, "accesso_negato"))

handleApriPortaCallback(d, chat_id, from_name, user_id) ==
  LET a == apriPorta(d)
      b == sendMessage(answerCallbackQuery(a, "porta_aperta"), chat_id, "porta_aperta")
      c == logOperation(b, user_id, "PORTA_APERTA", from_name)
      e == confirmationBeep(Emit(c, <<"log", user_id, "PORTA_APERTA", from_name>>))
  IN sendMainMenu(e, chat_id)

handleAccendiLuceCallback(d, chat_id, from_name, user_id) ==
  LET a == accendiLuce(d)
      b == sendMessage(answerCallbackQuery(a, "luce_accesa"), chat_id, "luce_accesa")
      c == logOperation(b, user_id, "LUCE_ACCESA", from_name)
      e == confirmationBeep(Emit(c, <<"log", user_id, "LUCE_ACCESA", from_name>>))
  IN sendMainMenu(delay(e, 1000), chat_id)

handleStatoSistemaCallback(d, chat_id) ==
  handleStatoSistema(answerCallbackQuery(d, "stato"), chat_id)

handleMostraLogCallback(d, chat_id) ==
  handleMostraLog(answerCallbackQuery(d, "log"), chat_id)

handleAiutoCallback(d, chat_id) ==
  sendHelpMessage(answerCallbackQuery(d, "aiuto"), chat_id)

\* Variant: a command is recognised by its first five characters.
processCommandByPrefix(d, chat_id, text, from_name, user_id) ==
  IF text = "/start" THEN sendWelcomeMessage(d, chat_id)
  ELSE IF text \in {"/apri", "/apri ora"} THEN handleApriPorta(d, chat_id, from_name, user_id)
  ELSE IF text = "/luce" THEN handleAccendiLuce(d, chat_id, from_name, user_id)
  ELSE IF text = "/stato" THEN handleStatoSistema(d, chat_id)
  ELSE IF text = "/log" THEN handleMostraLog(d, chat_id)
  ELSE IF text = "/help" THEN sendHelpMessage(d, chat_id)
  ELSE IF text = "/menu" THEN sendMainMenu(d, chat_id)
  ELSE handleUnknownCommand(d, chat_id)

processCommand(d, chat_id, text, from_name, user_id) ==
  IF text = "/start" THEN sendWelcomeMessage(d, chat_id)
  ELSE IF text = "/apri" THEN handleApriPorta(d, chat_id, from_name, user_id)
  ELSE IF text = "/luce" THEN handleAccendiLuce(d, chat_id, from_name, user_id)
  ELSE IF text = "/stato" THEN handleStatoSistema(d, chat_id)
  ELSE IF text = "/log" THEN handleMostraLog(d, chat_id)
  ELSE IF text = "/help" THEN sendHelpMessage(d, chat_id)
  ELSE IF text = "/menu" THEN sendMainMenu(d, chat_id)
  ELSE handleUnknownCommand(d, chat_id)

processCallback(d, chat_id, callback_data, from_name, user_id) ==
  IF callback_data = "APRI_PORTA" THEN handleApriPortaCallback(d, chat_id, from_name, user_id)
  ELSE IF callback_data = "ACCENDI_LUCE" THEN handleAccendiLuceCallback(d, chat_id, from_name, user_id)
  ELSE IF callback_data = "STATO_SISTEMA" THEN handleStatoSistemaCallback(d, chat_id)
  ELSE IF callback_data = "MOSTRA_LOG" THEN handleMostraLogCallback(d, chat_id)
  ELSE IF callback_data = "AIUTO" THEN handleAiutoCallback(d, chat_id)
  ELSE answerCallbackQuery(d, "comando_non_riconosciuto")

\* One turn of the for loop of handleNewMessages, on item m.
handleMessage(d, m) ==
  LET user_id == toInt(m.chat_id)
  IN IF m.type = "message"
       THEN IF ~isAuthorizedUser(d, user_id)
              THEN handleUnauthorizedUser(d, m.chat_id, m.from_name)
              ELSE processCommand(d, m.chat_id, m.text, m.from_name, user_id)
     ELSE IF m.type = "callback_query"
       THEN IF ~isAuthorizedUser(d, user_id)
              THEN answerCallbackQuery(d, "non_autorizzato")
              ELSE processCallback(d, m.chat_id, m.text, m.from_name, user_id)
     ELSE d

RECURSIVE handleNewMessages(_, _)
handleNewMessages(d, msgs) ==
  IF msgs = <<>> THEN d ELSE handleNewMessages(handleMessage(d, Head(msgs)), Tail(msgs))

\* checkTelegramMessages(): polls holds the results of the successive
\* getUpdates calls that were not 0, each [n, msgs] with n the returned
\* count (negative on a transport error, msgs then empty); the call after
\* the last of them returns 0 and ends the while loop. took is the time
\* the first getUpdates call blocks for, in ms.
RECURSIVE checkTelegramMessagesLoop(_, _)
checkTelegramMessagesLoop(d, polls) ==
  IF polls = <<>>
    THEN [d EXCEPT !.telegramOk = TRUE]
    ELSE LET r == Head(polls)
             ok == [d EXCEPT !.telegramOk = (r.n >= 0)]
         IN checkTelegramMessagesLoop(handleNewMessages(ok, r.msgs), Tail(polls))

checkTelegramMessages(d, took, polls) ==
  checkTelegramMessagesLoop(delay(Emit(d, <<"poll">>), took), polls)

\* ------------------------------------------------------------------------
\* Physical button
\* ------------------------------------------------------------------------
buttonISR(d) ==
  IF U32Gt(U32Sub(d.millis, d.lastInterruptTime), U32(interruptDebounceDelay))
    THEN [d EXCEPT !.buttonInterruptFlag = TRUE, !.lastInterruptTime = d.millis,
                   !.edgeLog = <<[t |-> d.millis, accepted |-> TRUE]>> \o @]
    ELSE [d EXCEPT !.edgeLog = <<[t |-> d.millis, accepted |-> FALSE]>> \o @]

apriPortaDaPulsante(d) ==
  LET a == apriPorta(d)
      b == logOperation(a, 0, "PORTA_PULSANTE", "Pulsante")
  IN confirmationBeep(Emit(b, <<"log", 0, "PORTA_PULSANTE", "Pulsante">>))

\* ------------------------------------------------------------------------
\* Network
\* ------------------------------------------------------------------------
\* connectToWiFiAndCheck(): joinAfter is the number of seconds after which
\* the join completes (more than JOIN_ATTEMPTS: not within the window).
connectToWiFiAndCheck(d, joinAfter) ==
  IF ~IsTrue(d.userConfig.configured, d.ub)
    THEN d
    ELSE LET attempts == Min(joinAfter, JOIN_ATTEMPTS)
             joined == joinAfter <= JOIN_ATTEMPTS
             w == [delay(d, attempts * 1000) EXCEPT !.wifiStatus = joined, !.wifiOk = joined]
         IN IF joined THEN successBeep(w) ELSE errorBeep(w)

\* Variant: the window closes one attempt early.
connectResultShort(d, joinAfter) ==
  IsTrue(d.userConfig.configured, d.ub) /\ joinAfter < JOIN_ATTEMPTS

connectResult(d, joinAfter) ==
  IsTrue(d.userConfig.configured, d.ub) /\ joinAfter <= JOIN_ATTEMPTS

testTelegramBot(d, getMe) ==
  IF getMe THEN successBeep([d EXCEPT !.telegramOk = TRUE])
           ELSE errorBeep([d EXCEPT !.telegramOk = FALSE])

systemReady(d) == confirmationBeep(d)

\* Variant: a lost connection opens the configuration portal.
checkWiFiConnectionToPortal(d) ==
  IF U32Gt(U32Sub(d.millis, d.lastCheck), U32(WIFI_CHECK_MS))
    THEN IF ~d.wifiStatus
           THEN setupAP([d EXCEPT !.wifiOk = FALSE, !.lastCheck = d.millis])
           ELSE [d EXCEPT !.wifiOk = TRUE, !.lastCheck = d.millis]
    ELSE d

checkWiFiConnection(d) ==
  IF U32Gt(U32Sub(d.millis, d.lastCheck), U32(WIFI_CHECK_MS))
    THEN LET c == IF ~d.wifiStatus
                    THEN Emit([d EXCEPT !.wifiOk = FALSE], <<"wifi", "reconnect">>)
                    ELSE [d EXCEPT !.wifiOk = TRUE]
         IN [c EXCEPT !.lastCheck = c.millis]
    ELSE d

\* ------------------------------------------------------------------------
\* setup() and loop()
\* ------------------------------------------------------------------------
\* Variant: the authorized set is not rebuilt at boot.
setupWithoutParse(d, joinAfter, getMe) ==
  LET cfg == loadConfig(d)
      pins == [cfg EXCEPT !.relayPorta = LOW, !.relayLuce = LOW]
  IN IF ~IsTrue(pins.userConfig.configured, pins.ub) \/ ~connectResult(pins, joinAfter)
       THEN setupAP(connectToWiFiAndCheck(pins, joinAfter))
       ELSE LET net == connectToWiFiAndCheck(pins, joinAfter)
                bot == testTelegramBot(initializeLog(net), getMe)
            IN [systemReady(bot) EXCEPT !.pc = "loop"]

setup(d, joinAfter, getMe) ==
  LET cfg == parseAuthorizedUsers(loadConfig(d))
      pins == [cfg EXCEPT !.relayPorta = LOW, !.relayLuce = LOW]
  IN IF ~IsTrue(pins.userConfig.configured, pins.ub) \/ ~connectResult(pins, joinAfter)
       THEN setupAP(connectToWiFiAndCheck(pins, joinAfter))
       ELSE LET net == connectToWiFiAndCheck(pins, joinAfter)
                bot == testTelegramBot(initializeLog(net), getMe)
            IN [systemReady(bot) EXCEPT !.pc = "loop"]

\* The long press is recognised in this iteration.
LongPress(d) ==
  /\ d.resetPin = LOW
  /\ d.resetButtonPressTime # U32Zero
  /\ ~d.configModeRequested
  /\ U32Gt(U32Sub(d.millis, d.resetButtonPressTime), U32(LONG_PRESS_MS))

\* The poll is due in this iteration.
PollDue(d) == U32Gt(d.millis, U32Add(d.lastTimeBotRan, U32(BOT_REQUEST_DELAY)))

\* This iteration reaches the poll and runs it.
PollRuns(d) == ~LongPress(d) /\ PollDue(d)

\* loop(), first part: the configuration button, then the poll when due.
loopPoll(d, took, polls) ==
  LET pressed == d.resetPin = LOW
      first == pressed /\ d.resetButtonPressTime = U32Zero
      long == LongPress(d)
      btn == IF first THEN [d EXCEPT !.resetButtonPressTime = d.millis]
             ELSE IF pressed THEN d
             ELSE [d EXCEPT !.resetButtonPressTime = U32Zero, !.configModeRequested = FALSE]
  IN IF long
       THEN setupAP(delay([d EXCEPT !.configModeRequested = TRUE], 1200))
       ELSE LET polled ==
                  IF PollDue(btn)
                    THEN LET c == checkTelegramMessages(btn, took, polls)
                         IN [c EXCEPT !.lastTimeBotRan = c.millis]
                    ELSE btn
            IN [polled EXCEPT !.pc = "timeouts"]

\* loop(), second part: the scheduler tick and the connectivity check.
loopTimeouts(d) == [checkWiFiConnection(handleTimeouts(d)) EXCEPT !.pc = "button"]

\* A loop iteration started in d changes nothing.
IdleAt(d) ==
  /\ ~d.buttonInterruptFlag
  /\ ~PollDue(d)
  /\ loopTimeouts(loopPoll(d, 0, <<>>)) = [d EXCEPT !.pc = "button"]

\* checkButtonApriPorta(): the test of the flag ...
loopButtonTest(d) == [d EXCEPT !.pc = IF d.buttonInterruptFlag THEN "clear" ELSE "loop"]

\* Variant: the local activation leaves the flag set.
loopButtonClearKeepingFlag(d) == [apriPortaDaPulsante(d) EXCEPT !.pc = "loop"]

\* ... and, when it was set, its clearing and the local activation.
loopButtonClear(d) ==
  [apriPortaDaPulsante([d EXCEPT !.buttonInterruptFlag = FALSE]) EXCEPT !.pc = "loop"]

\* ------------------------------------------------------------------------
\* Inputs
\* ------------------------------------------------------------------------
\* The input of a step that takes none, and a request that carries none of
\* the arguments the handlers look for.
NoInput == [none |-> TRUE]

S111 == <<"1", "1", "1">>

S222 == <<"2", "2", "2">>

\* Two identifiers above LONG_MAX.
S5e9 == <<"5", "0", "0", "0", "0", "0", "0", "0", "0", "0">>

S6e9 == <<"6", "0", "0", "0", "0", "0", "0", "0", "0", "0">>

pw == <<"p", "w">>

\* An erased flash sector: every byte 0xFF (written "#"), no NUL anywhere.
ErasedImage ==
  [ssid |-> Rep("#", MAX_SSID_LEN), password |-> Rep("#", MAX_PASS_LEN),
   botToken |-> Rep("#", MAX_TOKEN_LEN), configPassword |-> Rep("#", MAX_PASSCFG_LEN),
   authorizedUsers |-> Rep("#", MAX_USERS_LEN), configured |-> 255]

\* A record left by an earlier configuration.
ConfiguredImage ==
  [ssid |-> <<"n">>, password |-> <<"s">>, botToken |-> <<"t">>, configPassword |-> pw,
   authorizedUsers |-> S111 \o <<",">> \o S6e9, configured |-> 1]

EepromImages == {ZeroConfig, ErasedImage, ConfiguredImage}

SaveRequests ==
  { [ssid |-> <<"n">>, pass |-> <<"s">>, token |-> <<"t">>, users |-> S111],
    [ssid |-> Rep("x", MAX_SSID_LEN - 1), pass |-> Rep("y", MAX_PASS_LEN - 1),
     token |-> Rep("z", MAX_TOKEN_LEN - 1), users |-> Rep("7", MAX_USERS_LEN - 1)],
    [ssid |-> Rep("x", MAX_SSID_LEN), pass |-> <<"s">>, token |-> <<"t">>, users |-> S222],
    [ssid |-> <<"n">>, pass |-> <<"s">>, token |-> <<"t">>] }

Secrets == {admin, pw, <<>>, Rep("q", MAX_PASSCFG_LEN)}

LoginRequests == {[cfgpass |-> s] : s \in Secrets \cup {Rep("q", MAX_PASSCFG_LEN - 1)}} \cup {NoInput}

ChangePwRequests ==
  {[oldpw |-> o, newpw |-> n, newpw2 |-> n2] :
      o \in {admin, pw}, n \in Secrets \ {admin}, n2 \in {pw, <<>>, Rep("q", MAX_PASSCFG_LEN)}}
  \cup {[oldpw |-> admin, newpw |-> pw]}

NameOf(chat_id) == IF chat_id = S111 THEN "Anna" ELSE IF chat_id = S222 THEN "Bruno" ELSE "Carla"

Origins == {S111, S222, S5e9}

Texts == {"/start", "/apri", "/luce", "/stato", "/log", "/help", "/menu", "/APRI", "/apri ora"}

CallbackData == {"APRI_PORTA", "ACCENDI_LUCE", "STATO_SISTEMA", "MOSTRA_LOG", "AIUTO", "APRI"}

Messages ==
  {[type |-> "message", chat_id |-> c, text |-> t, from_name |-> NameOf(c)] :
      c \in Origins, t \in Texts}
  \cup {[type |-> "callback_query", chat_id |-> c, text |-> t, from_name |-> NameOf(c)] :
      c \in Origins, t \in CallbackData}
  \cup {[type |-> "channel_post", chat_id |-> S111, text |-> "/apri", from_name |-> NameOf(S111)]}

\* What one poll cycle can receive: nothing, one item, a transport error
\* followed by nothing, two actuator commands in one batch, or a transport
\* error followed by one item.
PollInputs ==
  {<<>>, <<[n |-> -1, msgs |-> <<>>]>>}
  \cup {<<[n |-> 1, msgs |-> <<m>>]>> : m \in Messages}
  \cup {<<[n |-> 2, msgs |-> <<m1, m2>>]>> :
          m1 \in {m \in Messages : m.text = "/apri" /\ m.type = "message"},
          m2 \in {m \in Messages : m.text = "ACCENDI_LUCE" /\ m.chat_id = S111}}
  \cup {<<[n |-> -1, msgs |-> <<>>], [n |-> 1, msgs |-> <<m>>]>> :
          m \in {m \in Messages : m.text = "/apri" /\ m.type = "message" /\ m.chat_id = S111}}

\* The items of the end-to-end scenarios.
SystemPolls ==
  {<<>>}
  \cup {<<[n |-> 1, msgs |-> <<[type |-> "message", chat_id |-> c, text |-> "/apri",
                                from_name |-> NameOf(c)]>>]>> : c \in {S111, S222}}

\* The number of getUpdates calls of a poll cycle that returned items.
CountBatches(polls) == Cardinality({k \in 1..Len(polls) : polls[k].n > 0})

\* Seconds after which the join completes.
JoinTimes == {0, JOIN_ATTEMPTS, JOIN_ATTEMPTS + 1}

\* The counter value a long idle run stops at: 3001 ms before the wrap.
NearWrap == <<B16 - 1, B16 - 3001>>

\* ------------------------------------------------------------------------
\* State
\* ------------------------------------------------------------------------
VARIABLES
  eeprom, ub, resetPin, wifiStatus, pc, millis, out,
  userConfig, authorizedUsers, passwordOk,
  portaOpenTime, luceOnTime, relayPorta, relayLuce, operationLog,
  buttonInterruptFlag, lastInterruptTime,
  resetButtonPressTime, configModeRequested,
  lastTimeBotRan, lastCheck, wifiOk, telegramOk,
  recorded, resetPinSince, edgeLog,
  op, inp, elapses, events, edges

devVars ==
  <<eeprom, ub, resetPin, wifiStatus, pc, millis, out,
    userConfig, authorizedUsers, passwordOk,
    portaOpenTime, luceOnTime, relayPorta, relayLuce, operationLog,
    buttonInterruptFlag, lastInterruptTime,
    resetButtonPressTime, configModeRequested,
    lastTimeBotRan, lastCheck, wifiOk, telegramOk,
    recorded, resetPinSince, edgeLog>>

vars == <<devVars, op, inp, elapses, events, edges>>

\* The device state as one record.
Dev ==
  [eeprom |-> eeprom, ub |-> ub, resetPin |-> resetPin, wifiStatus |-> wifiStatus,
   pc |-> pc, millis |-> millis, out |-> out,
   userConfig |-> userConfig, authorizedUsers |-> authorizedUsers, passwordOk |-> passwordOk,
   portaOpenTime |-> portaOpenTime, luceOnTime |-> luceOnTime,
   relayPorta |-> relayPorta, relayLuce |-> relayLuce,
   operationLog |-> operationLog,
   buttonInterruptFlag |-> buttonInterruptFlag, lastInterruptTime |-> lastInterruptTime,
   resetButtonPressTime |-> resetButtonPressTime, configModeRequested |-> configModeRequested,
   lastTimeBotRan |-> lastTimeBotRan, lastCheck |-> lastCheck,
   wifiOk |-> wifiOk, telegramOk |-> telegramOk,
   recorded |-> recorded, resetPinSince |-> resetPinSince, edgeLog |-> edgeLog]

\* The next device state is d.
IsNext(d) ==
  /\ eeprom' = d.eeprom /\ ub' = d.ub /\ resetPin' = d.resetPin /\ wifiStatus' = d.wifiStatus
  /\ pc' = d.pc /\ millis' = d.millis /\ out' = d.out
  /\ userConfig' = d.userConfig /\ authorizedUsers' = d.authorizedUsers
  /\ passwordOk' = d.passwordOk
  /\ portaOpenTime' = d.portaOpenTime /\ luceOnTime' = d.luceOnTime
  /\ relayPorta' = d.relayPorta /\ relayLuce' = d.relayLuce
  /\ operationLog' = d.operationLog
  /\ buttonInterruptFlag' = d.buttonInterruptFlag /\ lastInterruptTime' = d.lastInterruptTime
  /\ resetButtonPressTime' = d.resetButtonPressTime
  /\ configModeRequested' = d.configModeRequested
  /\ lastTimeBotRan' = d.lastTimeBotRan /\ lastCheck' = d.lastCheck
  /\ wifiOk' = d.wifiOk /\ telegramOk' = d.telegramOk
  /\ recorded' = d.recorded /\ resetPinSince' = d.resetPinSince
  /\ edgeLog' = d.edgeLog

\* The next device state is what a handler returns; the handler is
\* evaluated once.
Becomes(result) == \E d \in {result} : IsNext(d)

\* The device state is d (used by the initial predicates).
Is(d) ==
  /\ eeprom = d.eeprom /\ ub = d.ub /\ resetPin = d.resetPin /\ wifiStatus = d.wifiStatus
  /\ pc = d.pc /\ millis = d.millis /\ out = d.out
  /\ userConfig = d.userConfig /\ authorizedUsers = d.authorizedUsers
  /\ passwordOk = d.passwordOk
  /\ portaOpenTime = d.portaOpenTime /\ luceOnTime = d.luceOnTime
  /\ relayPorta = d.relayPorta /\ relayLuce = d.relayLuce
  /\ operationLog = d.operationLog
  /\ buttonInterruptFlag = d.buttonInterruptFlag /\ lastInterruptTime = d.lastInterruptTime
  /\ resetButtonPressTime = d.resetButtonPressTime
  /\ configModeRequested = d.configModeRequested
  /\ lastTimeBotRan = d.lastTimeBotRan /\ lastCheck = d.lastCheck
  /\ wifiOk = d.wifiOk /\ telegramOk = d.telegramOk
  /\ recorded = d.recorded /\ resetPinSince = d.resetPinSince
  /\ edgeLog = d.edgeLog

\* The device state at the start of a handler: nothing emitted yet.
Now == [Dev EXCEPT !.out = <<>>]

Operational == pc \in {"loop", "timeouts", "button", "clear"}

\* Power-on with one of the persisted images imgs; ub matters only for a
\* flag byte that is neither 0 nor 1.
InitWith(imgs) ==
  /\ \E img \in imgs, u \in BOOLEAN :
       /\ (u => img.configured \notin {0, 1})
       /\ Is(PowerOn(img, u, HIGH, FALSE))
  /\ op = "power" /\ inp = NoInput /\ elapses = 0 /\ events = 0 /\ edges = 0

\* ------------------------------------------------------------------------
\* Actions (parameterised by the inputs they draw from)
\* ------------------------------------------------------------------------
SetupWith(joinTimes) ==
  /\ pc = "boot"
  /\ \E joinAfter \in joinTimes, getMe \in BOOLEAN :
       /\ Becomes(setup(Now, joinAfter, getMe))
       /\ inp' = [joinAfter |-> joinAfter, getMe |-> getMe]
  /\ op' = "setup"
  /\ UNCHANGED <<elapses, events, edges>>

LoopPollWith(pollInputs, pollTimes) ==
  /\ pc = "loop"
  /\ \E polls \in pollInputs, took \in pollTimes :
       /\ (~PollRuns(Now) => polls = <<>> /\ took = 0)
       /\ events + CountBatches(polls) <= MaxEvents
       /\ (took > 0 => elapses < MaxElapse)
       /\ Becomes(loopPoll(Now, took, polls))
       /\ inp' = [took |-> took, polls |-> polls]
       /\ events' = events + CountBatches(polls)
       /\ elapses' = elapses + (IF took > 0 THEN 1 ELSE 0)
  /\ op' = "loopPoll"
  /\ UNCHANGED edges

LoopTimeouts ==
  /\ pc = "timeouts"
  /\ Becomes(loopTimeouts(Now))
  /\ op' = "loopTimeouts" /\ inp' = NoInput
  /\ UNCHANGED <<elapses, events, edges>>

LoopButtonTest ==
  /\ pc = "button"
  /\ Becomes(loopButtonTest(Now))
  /\ op' = "loopButtonTest" /\ inp' = NoInput
  /\ UNCHANGED <<elapses, events, edges>>

LoopButtonClear ==
  /\ pc = "clear"
  /\ Becomes(loopButtonClear(Now))
  /\ op' = "loopButtonClear" /\ inp' = NoInput
  /\ UNCHANGED <<elapses, events, edges>>

\* A falling edge on the door button: the interrupt handler runs, between
\* two loop iterations or between the test and the clearing of the flag.
ButtonEdgeUpTo(most) ==
  /\ pc \in {"loop", "clear", "config"}
  /\ edges < most
  /\ Becomes(buttonISR(Now))
  /\ op' = "buttonISR" /\ inp' = NoInput
  /\ edges' = edges + 1
  /\ UNCHANGED <<elapses, events>>

ButtonEdge == ButtonEdgeUpTo(MaxEdges)

\* updateDisplay(), the last call of setup() and of every loop iteration,
\* takes dt ms to redraw the display over the I2C bus.
UpdateDisplayTakes(deltas) ==
  /\ pc = "loop"
  /\ elapses < MaxElapse
  /\ \E dt \in deltas :
       /\ Becomes(delay(Now, dt))
       /\ inp' = [dt |-> dt]
  /\ op' = "updateDisplay"
  /\ elapses' = elapses + 1
  /\ UNCHANGED <<events, edges>>

\* The loop spins for dt ms through iterations that change nothing.
ElapseWith(deltas) ==
  /\ pc = "loop"
  /\ elapses < MaxElapse
  /\ \E dt \in deltas :
       /\ IdleAt(Now) /\ IdleAt(delay(Now, dt - 1))
       /\ Becomes(delay(Now, dt))
       /\ inp' = [dt |-> dt]
  /\ op' = "elapse"
  /\ elapses' = elapses + 1
  /\ UNCHANGED <<events, edges>>

\* A long run of loop iterations in which nothing happens (no item, no edge,
\* nothing armed, configuration button released, network up), up to the
\* iteration that starts when millis() is NearWrap, with the poll and the
\* connectivity check due in it.
LoopIdle ==
  /\ pc = "loop"
  /\ U32Gt(NearWrap, millis)
  /\ ~buttonInterruptFlag /\ resetPin = HIGH /\ wifiStatus
  /\ portaOpenTime = U32Zero /\ luceOnTime = U32Zero
  /\ relayPorta = LOW /\ relayLuce = LOW
  /\ Becomes([Now EXCEPT !.millis = NearWrap,
                         !.lastTimeBotRan = U32Sub(NearWrap, U32(BOT_REQUEST_DELAY + 1)),
                         !.lastCheck = U32Sub(NearWrap, U32(WIFI_CHECK_MS + 1)),
                         !.wifiOk = TRUE, !.telegramOk = TRUE,
                         !.resetButtonPressTime = U32Zero,
                         !.configModeRequested = FALSE])
  /\ op' = "loopIdle" /\ inp' = NoInput
  /\ UNCHANGED <<elapses, events, edges>>

\* The configuration button is pressed or released (the loop samples the
\* pin once per iteration).
ResetPinChange ==
  /\ pc = "loop"
  /\ Becomes([Now EXCEPT !.resetPin = IF resetPin = LOW THEN HIGH ELSE LOW,
                         !.resetPinSince = millis])
  /\ op' = "resetPin" /\ inp' = NoInput
  /\ UNCHANGED <<elapses, events, edges>>

\* The network is lost or comes back.
WifiChange ==
  /\ pc = "loop"
  /\ Becomes([Now EXCEPT !.wifiStatus = ~wifiStatus])
  /\ op' = "wifi" /\ inp' = NoInput
  /\ UNCHANGED <<elapses, events, edges>>

\* Power is removed and restored.
PowerCycle ==
  /\ pc # "boot"
  /\ Becomes(PowerOn(eeprom, ub, HIGH, FALSE))
  /\ op' = "power" /\ inp' = NoInput
  /\ elapses' = 0 /\ events' = 0 /\ edges' = 0

\* Portal requests, served in Configuration mode only.
Portal(name, d, req) ==
  /\ pc = "config"
  /\ Becomes(d)
  /\ op' = name /\ inp' = req
  /\ elapses' = (IF d.pc = "boot" THEN 0 ELSE elapses)
  /\ events' = (IF d.pc = "boot" THEN 0 ELSE events)
  /\ edges' = (IF d.pc = "boot" THEN 0 ELSE edges)

GetRoot == Portal("handleRoot", handleRoot(Now), NoInput)

PostLoginWith(reqs) == \E req \in reqs : Portal("handleLogin", handleLogin(Now, req), req)

PostSaveWith(reqs) == \E req \in reqs : Portal("handleSave", handleSave(Now, req), req)

GetChangePw == Portal("handleChangePassword", handleChangePassword(Now), NoInput)

PostChangePwWith(reqs) ==
  \E req \in reqs :
     Portal("handleChangePasswordPost", handleChangePasswordPost(Now, req), req)

PostResetEeprom == Portal("handleResetEEPROM", handleResetEEPROM(Now), NoInput)

GetOther == Portal("handleNotFound", handleNotFound(Now), NoInput)

\* ------------------------------------------------------------------------
\* The whole device, from first power-on, with the inputs of the
\* end-to-end scenarios
\* ------------------------------------------------------------------------
Init == InitWith({ZeroConfig})

Setup == SetupWith({0, JOIN_ATTEMPTS + 1})

LoopPoll == LoopPollWith(SystemPolls, {0, 3001})

PostLogin == PostLoginWith({[cfgpass |-> admin], [cfgpass |-> pw]})

PostSave == PostSaveWith({[ssid |-> <<"n">>, pass |-> <<"s">>, token |-> <<"t">>, users |-> S111],
                          [ssid |-> <<"n">>, pass |-> <<"s">>, token |-> <<"t">>]})

PostChangePw == PostChangePwWith({[oldpw |-> admin, newpw |-> pw, newpw2 |-> pw]})

Next ==
  \/ Setup
  \/ LoopPoll
  \/ LoopTimeouts
  \/ LoopButtonTest
  \/ LoopButtonClear
  \/ ButtonEdge
  \/ LoopIdle
  \/ ResetPinChange
  \/ PowerCycle
  \/ GetRoot
  \/ PostLogin
  \/ PostSave
  \/ GetChangePw
  \/ PostChangePw
  \/ PostResetEeprom
  \/ GetOther

Spec == Init /\ [][Next]_vars

\* The core calls loop() again and again, whether or not anything arrives:
\* an Operational device always goes on to the next part of the loop.
LoopStep == LoopPollWith({<<>>}, {0}) \/ LoopTimeouts \/ LoopButtonTest \/ LoopButtonClear

FairSpec == Spec /\ WF_vars(LoopStep)

\* ------------------------------------------------------------------------
\* The configuration portal, with every kind of submission
\* ------------------------------------------------------------------------
InitPortal == InitWith(EepromImages)

SetupPortal == SetupWith(JoinTimes)

PostLoginAny == PostLoginWith(LoginRequests)

PostSaveAny == PostSaveWith(SaveRequests)

PostChangePwAny == PostChangePwWith(ChangePwRequests)

NextPortal ==
  \/ SetupPortal
  \/ PowerCycle
  \/ GetRoot
  \/ PostLoginAny
  \/ PostSaveAny
  \/ GetChangePw
  \/ PostChangePwAny
  \/ PostResetEeprom
  \/ GetOther

SpecPortal == InitPortal /\ [][NextPortal]_vars

\* ------------------------------------------------------------------------
\* The command router of a configured device, with every kind of remote item
\* ------------------------------------------------------------------------
InitRouter == InitWith({ConfiguredImage})

SetupRouter == SetupWith({0})

LoopPollAny == LoopPollWith(PollInputs, {0, 3001})

NextRouter ==
  \/ SetupRouter
  \/ LoopPollAny
  \/ LoopTimeouts
  \/ LoopButtonTest
  \/ LoopIdle
  \/ PowerCycle

SpecRouter == InitRouter /\ [][NextRouter]_vars

\* ------------------------------------------------------------------------
\* The two buttons of a configured device
\* ------------------------------------------------------------------------
LoopPollEmpty == LoopPollWith({<<>>}, {0, 1001, 3001})

ElapseButton == ElapseWith({50, 100, 101})

ButtonEdges == ButtonEdgeUpTo(MaxPresses)

UpdateDisplay == UpdateDisplayTakes({50, 100})

NextButton ==
  \/ SetupRouter
  \/ LoopPollEmpty
  \/ LoopTimeouts
  \/ LoopButtonTest
  \/ LoopButtonClear
  \/ ButtonEdges
  \/ UpdateDisplay
  \/ ElapseButton
  \/ LoopIdle
  \/ ResetPinChange
  \/ WifiChange
  \/ PowerCycle

SpecButton == InitRouter /\ [][NextButton]_vars

\* ------------------------------------------------------------------------
\* The authorized set of configured devices with various principal lists,
\* and the router's use of it
\* ------------------------------------------------------------------------
\* The tokens joined by commas.
RECURSIVE Joined(_)
Joined(tokens) ==
  IF Len(tokens) = 0 THEN <<>>
  ELSE IF Len(tokens) = 1 THEN tokens[1]
  ELSE tokens[1] \o <<",">> \o Joined(Tail(tokens))

\* No principal, three, eleven (one more than MAX_USERS, the last being
\* 222), and two of which one is above LONG_MAX.
UserLists ==
  {<<>>,
   Joined(<<(<<"1", "1">>), <<"2", "2">>, <<"3", "3">>>>),
   Joined(<<S111, <<"2">>, <<"3">>, <<"4">>, <<"5">>, <<"6">>, <<"7">>, <<"8">>, <<"9">>,
            <<"1", "0">>, S222>>),
   Joined(<<S111, S6e9>>)}

AuthImages == {[ConfiguredImage EXCEPT !.authorizedUsers = l] : l \in UserLists}

InitAuth == InitWith(AuthImages)

SpecAuth == InitAuth /\ [][NextRouter]_vars

\* ------------------------------------------------------------------------
\* The operation log of a configured device: calls of logOperation some
\* time apart, before and after the wrap of millis(), and log reports
\* ------------------------------------------------------------------------
LogCalls ==
  {[chatId |-> 111, operation |-> "LUCE_ACCESA", userName |-> "Anna"],
   [chatId |-> 0, operation |-> "PORTA_PULSANTE", userName |-> "Pulsante"]}

\* Time between two calls, in ms: it leads from NearWrap to 0.
LogTimes == {3001}

RecordLog ==
  /\ pc = "loop"
  /\ Len(recorded) < MaxRecords
  /\ \E c \in LogCalls, dt \in LogTimes :
       /\ Becomes(logOperation(delay(Now, dt), c.chatId, c.operation, c.userName))
       /\ inp' = [dt |-> dt, call |-> c]
  /\ op' = "logOperation"
  /\ UNCHANGED <<elapses, events, edges>>

ReportLog ==
  /\ pc = "loop"
  /\ elapses < MaxElapse
  /\ Becomes(handleMostraLog(Now, S111))
  /\ op' = "handleMostraLog" /\ inp' = NoInput
  /\ elapses' = elapses + 1
  /\ UNCHANGED <<events, edges>>

NextLog ==
  \/ SetupRouter
  \/ RecordLog
  \/ ReportLog
  \/ LoopIdle
  \/ PowerCycle

SpecLog == InitRouter /\ [][NextLog]_vars

TypeOK ==
  /\ pc \in {"boot", "loop", "timeouts", "button", "clear", "config"}
  /\ relayPorta \in {LOW, HIGH} /\ relayLuce \in {LOW, HIGH}
  /\ Len(operationLog) = LOG_SIZE
  /\ Len(authorizedUsers) <= MAX_USERS

\* ========================================================================
\* Properties
\* ========================================================================
\* In the action properties below the unprimed variables are the state
\* before a step and the primed ones the state after it; op' names the
\* handler the step ran, inp' is its input and out' what it emitted.

\* The step handled one poll cycle that received exactly one remote item.
OneItem(o, i) == o = "loopPoll" /\ Len(i.polls) = 1 /\ i.polls[1].n = 1

\* That item.
Item(i) == i.polls[1].msgs[1]

\* The identifiers listed in the configuration record, as written there
\* (the first MAX_USERS of them). Identifiers are in canonical decimal
\* form, so two of them are the same number exactly when they are the same
\* digit string, whatever their size.
ListedIds(cfg) ==
  LET tokens == strtok(cfg.authorizedUsers)
  IN {tokens[k] : k \in 1..Min(Len(tokens), MAX_USERS)}

\* The responses that deny an item m.
Denied(o, m) ==
  \E k \in 1..Len(o) :
     \/ o[k] = <<"tg", "accesso_negato", m.chat_id>>
     \/ o[k] = <<"cb", "non_autorizzato">>

\* The number of entries of o that are log appends.
LogAppends(o) == Cardinality({k \in 1..Len(o) : o[k][1] = "log"})

\* C1: handling a remote item (text or callback, any token) whose origin id
\* is not one of the listed identifiers produces a denial response and
\* changes neither relay, neither armed-since timestamp, nor any slot of the
\* operation log.
C1_UnauthorizedDenied ==
  [][(OneItem(op', inp')
        /\ Item(inp').type \in {"message", "callback_query"}
        /\ Item(inp').chat_id \notin ListedIds(userConfig))
      => /\ Denied(out', Item(inp'))
         /\ relayPorta' = relayPorta /\ relayLuce' = relayLuce
         /\ portaOpenTime' = portaOpenTime /\ luceOnTime' = luceOnTime
         /\ operationLog' = operationLog]_vars

\* C2: every activation is eventually followed, with no further input, by
\* the de-assertion of the relay: an asserted relay leads to that relay
\* de-asserted with its armed-since timestamp 0.
C2_EventuallyDeasserted ==
  /\ (relayPorta = HIGH) ~> (relayPorta = LOW /\ portaOpenTime = U32Zero)
  /\ (relayLuce = HIGH) ~> (relayLuce = LOW /\ luceOnTime = U32Zero)

\* The scheduler contract on one actuator: relay is its output and since its
\* armed-since timestamp before a tick, relay2 and since2 after it.
TickContract(relay, since, relay2, since2, timeout) ==
  LET elapsed == U32Sub(millis, since)
  IN /\ (relay = HIGH /\ U32Gt(U32(timeout), elapsed) => relay2 = HIGH /\ since2 = since)
     /\ (relay = HIGH /\ U32Gt(elapsed, U32(timeout)) => relay2 = LOW /\ since2 = U32Zero)
     /\ (relay = LOW => relay2 = LOW /\ since2 = since)

\* C3: after an activation at time armedSince, a tick before
\* armedSince + timeout leaves the actuator armed and asserted, the first
\* tick after armedSince + timeout de-asserts it and zeroes armedSince, and
\* a tick on a disarmed actuator changes nothing.
C3_TickContract ==
  [][op' = "loopTimeouts"
      => /\ TickContract(relayPorta, portaOpenTime, relayPorta', portaOpenTime', PORTA_TIMEOUT)
         /\ TickContract(relayLuce, luceOnTime, relayLuce', luceOnTime', LUCE_TIMEOUT)]_vars

\* The submission of the end-to-end scenario.
Save111 == [ssid |-> <<"n">>, pass |-> <<"s">>, token |-> <<"t">>, users |-> S111]

\* The step handled exactly one item, the text /apri from origin 111.
Apri111(o, i) ==
  /\ OneItem(o, i)
  /\ Item(i).type = "message" /\ Item(i).text = "/apri" /\ Item(i).chat_id = S111

\* C4, step by step: (a) boot on an unconfigured record enters
\* Configuration mode; (b) POST /save of the four fields with users = "111"
\* after login persists configured = true and restarts; (c) the next boot,
\* when the join succeeds, is Operational with authorized set {111};
\* (d) /apri from 111 then asserts the door relay and appends exactly one
\* log entry, for principal 111; (e) the scheduler tick that follows, which
\* comes after the door timeout, de-asserts the door relay.
C4_a == op' = "setup" /\ ~IsTrue(eeprom.configured, ub) => pc' = "config"

C4_b ==
  op' = "handleSave" /\ passwordOk /\ inp' = Save111
    => eeprom'.configured = 1 /\ eeprom'.authorizedUsers = S111 /\ pc' = "boot"

C4_c ==
  op' = "setup" /\ eeprom.configured = 1 /\ eeprom.authorizedUsers = S111
                /\ inp'.joinAfter <= JOIN_ATTEMPTS
    => pc' = "loop" /\ authorizedUsers' = <<111>>

C4_d ==
  Apri111(op', inp') /\ authorizedUsers = <<111>>
    => /\ relayPorta' = HIGH
       /\ LogAppends(out') = 1
       /\ operationLog'[1].chatId = 111
       /\ SubSeq(operationLog', 2, LOG_SIZE) = SubSeq(operationLog, 1, LOG_SIZE - 1)

C4_e ==
  Apri111(op, inp) /\ authorizedUsers = <<111>> /\ op' = "loopTimeouts"
    => relayPorta' = LOW

C4_EndToEnd == [][C4_a /\ C4_b /\ C4_c /\ C4_d /\ C4_e]_vars

\* The request carries the four fields of the settings form.
AllFour(req) ==
  hasArg(req, "ssid") /\ hasArg(req, "pass") /\ hasArg(req, "token") /\ hasArg(req, "users")

\* The request carries the three fields of the change-password form.
AllThree(req) == hasArg(req, "oldpw") /\ hasArg(req, "newpw") /\ hasArg(req, "newpw2")

\* The handler answered with this status and nothing else happened that
\* the client can see.
Answered(o, status) == Len(o) = 1 /\ o[1][1] = "http" /\ o[1][2] = status

\* The step restarted the device.
Restarted(o, p) == p = "boot" /\ o[Len(o)] = <<"restart">>

\* C5: a POST /save rejected because the authenticated flag is false (403)
\* or because one of ssid, pass, token, users is missing (400) leaves the
\* in-memory record, the persisted record and the flag unchanged and does
\* not restart; a POST /save with the flag set and the four fields present
\* sets configured = true, persists the record and restarts.
C5_SaveRejected ==
  [][op' = "handleSave"
      => IF passwordOk /\ AllFour(inp')
           THEN /\ eeprom'.configured = 1
                /\ eeprom'.authorizedUsers = strncpy(inp'.users, MAX_USERS_LEN - 1)
                /\ Restarted(out', pc')
           ELSE /\ Answered(out', IF ~passwordOk THEN 403 ELSE 400)
                /\ userConfig' = userConfig /\ eeprom' = eeprom
                /\ passwordOk' = passwordOk /\ pc' = "config"]_vars

\* A submission with a field missing was rejected after a login.
C5_Witness == op = "handleSave" /\ passwordOk /\ Answered(out, 400)

\* C6: GET / returns the settings form with the stored network name,
\* network secret, token and principal list exactly when the authenticated
\* flag is true; otherwise it returns the login page, which carries none of
\* the stored values.
C6_RootGated ==
  [][op' = "handleRoot"
      => out' = IF passwordOk
                  THEN <<(<<"http", 200, "form", userConfig.ssid, userConfig.password,
                            userConfig.botToken, userConfig.authorizedUsers>>)>>
                  ELSE <<(<<"http", 200, "login">>)>>]_vars

\* The form was served with stored, non-empty values.
C6_Witness ==
  /\ op = "handleRoot" /\ passwordOk
  /\ out[1][3] = "form" /\ out[1][6] = userConfig.botToken /\ userConfig.botToken # <<>>

\* C7: POST /login sets the authenticated flag only when cfgpass equals the
\* current secret, and a wrong or missing cfgpass gets 403 and leaves the
\* flag as it was. A POST /changepw (of the three fields) whose oldpw is not
\* the current secret gets 403, one whose newpw differs from newpw2 is
\* rejected, one with a field missing is rejected, and all of them leave
\* the in-memory and the persisted record unchanged.
C7_LoginAndChangeRejected ==
  [][/\ (op' = "handleLogin"
          => IF hasArg(inp', "cfgpass") /\ inp'.cfgpass = userConfig.configPassword
               THEN passwordOk'
               ELSE Answered(out', 403) /\ passwordOk' = passwordOk)
     /\ (op' = "handleChangePasswordPost" /\ AllThree(inp')
                                          /\ inp'.oldpw # userConfig.configPassword
          => Answered(out', 403) /\ userConfig' = userConfig /\ eeprom' = eeprom)
     /\ (op' = "handleChangePasswordPost" /\ AllThree(inp') /\ inp'.newpw # inp'.newpw2
          => (Answered(out', 400) \/ Answered(out', 403))
             /\ userConfig' = userConfig /\ eeprom' = eeprom)
     /\ (op' = "handleChangePasswordPost" /\ ~AllThree(inp')
          => Answered(out', 400) /\ userConfig' = userConfig /\ eeprom' = eeprom)]_vars

\* A change of secret was refused for a wrong old secret, on a device that
\* holds a record.
C7_Witness ==
  /\ op = "handleChangePasswordPost" /\ Answered(out, 403)
  /\ inp.oldpw # userConfig.configPassword /\ eeprom.configured = 1

\* What load() returns on the next boot.
BootLoad == loadConfig(PowerOn(eeprom, ub, resetPin, wifiStatus))

\* The four values fit their fields.
Fits(req) ==
  /\ Len(req.ssid) <= MAX_SSID_LEN - 1 /\ Len(req.pass) <= MAX_PASS_LEN - 1
  /\ Len(req.token) <= MAX_TOKEN_LEN - 1 /\ Len(req.users) <= MAX_USERS_LEN - 1

\* C8: after a successful POST /save whose four values fit their fields,
\* load() on the next boot returns configured = true, exactly the four
\* submitted values, and the configuration-access secret that was in force
\* before the save.
C8_SaveLoadRoundTrip ==
  [][op' = "handleSave" /\ passwordOk /\ AllFour(inp') /\ Fits(inp')
      => BootLoad'.userConfig =
           [ssid |-> inp'.ssid, password |-> inp'.pass, botToken |-> inp'.token,
            configPassword |-> userConfig.configPassword,
            authorizedUsers |-> inp'.users, configured |-> 1]]_vars

\* C9: after a successful POST /changepw (correct oldpw, newpw equal to
\* newpw2), whatever the configured flag, load() on the next boot yields
\* newpw as the secret: POST /login then succeeds with newpw and fails with
\* the old secret.
C9_ChangePwPersists ==
  [][op' = "handleChangePasswordPost" /\ AllThree(inp')
        /\ inp'.oldpw = userConfig.configPassword /\ inp'.newpw = inp'.newpw2
      => /\ BootLoad'.userConfig.configPassword = inp'.newpw
         /\ handleLogin(BootLoad', [cfgpass |-> inp'.newpw]).passwordOk
         /\ (inp'.oldpw # inp'.newpw
               => ~handleLogin(BootLoad', [cfgpass |-> inp'.oldpw]).passwordOk)]_vars

\* C10: POST /reset_eeprom, whatever the authenticated flag, overwrites the
\* whole persisted record with zero bytes and restarts; the boot that
\* follows loads configured = false, an empty authorized set and the
\* secret "admin", and enters Configuration mode.
C10_FactoryReset ==
  [][/\ (op' = "handleResetEEPROM" => eeprom' = ZeroConfig /\ Restarted(out', pc'))
     /\ (op = "handleResetEEPROM" /\ op' = "setup"
          => /\ ~IsTrue(userConfig'.configured, ub')
             /\ authorizedUsers' = <<>>
             /\ userConfig'.configPassword = admin
             /\ pc' = "config")]_vars

\* An unauthenticated POST /reset_eeprom has just wiped the persisted record
\* and restarted the device.
C10_Witness ==
  /\ op = "handleResetEEPROM" /\ pc = "boot" /\ eeprom = ZeroConfig
  /\ out # <<>> /\ out[Len(out)] = <<"restart">>

\* C11: boot ends in exactly one of the two modes, after at most
\* JOIN_ATTEMPTS join attempts of one second each: it reaches Operational
\* exactly when the loaded record has configured = true and the join
\* completes within the window, and Configuration otherwise; a join that
\* never completes is given up after exactly JOIN_ATTEMPTS attempts.
C11_BootEndsInOneMode ==
  [][op' = "setup"
      => LET cfgd == IsTrue(BootLoad.userConfig.configured, ub)
             window == delay(BootLoad, JOIN_ATTEMPTS * 1000)
         IN /\ pc' \in {"loop", "config"}
            /\ (pc' = "loop" <=> cfgd /\ inp'.joinAfter <= JOIN_ATTEMPTS)
            /\ (pc' = "config" <=> ~cfgd \/ inp'.joinAfter > JOIN_ATTEMPTS)
            /\ (cfgd /\ inp'.joinAfter > JOIN_ATTEMPTS => millis' = errorBeep(window).millis)
            /\ ~U32Gt(millis', systemReady(successBeep(successBeep(window))).millis)]_vars

\* The join completed at the last attempt of the window and the device is
\* Operational.
C11_Witness == op = "setup" /\ pc = "loop" /\ inp.joinAfter = JOIN_ATTEMPTS /\ wifiOk

\* C12: every entry into Configuration mode, from boot or from the long
\* press, leaves the authenticated flag false: right after the entry a
\* POST /save is refused with 403 and changes nothing, and GET / serves the
\* login page.
C12_EntryResetsAuthentication ==
  [][pc # "config" /\ pc' = "config"
      => /\ ~passwordOk'
         /\ \A req \in SaveRequests :
               /\ Answered(handleSave(Now', req).out, 403)
               /\ handleSave(Now', req).eeprom = eeprom'
               /\ handleSave(Now', req).pc = "config"
         /\ handleRoot(Now').out = <<(<<"http", 200, "login">>)>>]_vars

\* The long press took a device that an earlier Configuration session had
\* configured into Configuration mode.
C12_Witness ==
  /\ op = "loopPoll" /\ pc = "config" /\ configModeRequested
  /\ eeprom.configured = 1 /\ ~passwordOk

\* The steps of the Operational loop.
LoopOps == {"loopPoll", "loopTimeouts", "loopButtonTest", "loopButtonClear", "loopIdle", "elapse"}

\* C13: within a power cycle Configuration mode is one-way: a step taken in
\* Configuration mode is no step of the Operational loop, polls nothing,
\* sends nothing over the command channel, drives no relay, appends nothing
\* to the log and arms no timer; it ends in Configuration mode, or in a
\* restart that a successful save or the factory reset triggered.
C13_ConfigurationOneWay ==
  [][pc = "config" /\ op' # "power"
      => /\ pc' \in {"config", "boot"}
         /\ (pc' = "boot"
              => /\ Restarted(out', pc')
                 /\ \/ op' = "handleSave" /\ passwordOk /\ AllFour(inp')
                    \/ op' = "handleResetEEPROM")
         /\ op' \notin LoopOps
         /\ \A k \in 1..Len(out') : out'[k][1] \notin {"poll", "tg", "cb", "relay", "log"}
         /\ (relayPorta' = HIGH => relayPorta = HIGH /\ portaOpenTime' = portaOpenTime)
         /\ (relayLuce' = HIGH => relayLuce = HIGH /\ luceOnTime' = luceOnTime)
         /\ (pc' = "config" => operationLog' = operationLog)]_vars

\* The portal answered a request in a Configuration session that the long
\* press opened.
C13_Witness == op = "handleRoot" /\ pc = "config" /\ configModeRequested

\* C14: the Operational loop enters Configuration mode only when the
\* configuration button has been low continuously for more than
\* LONG_PRESS_MS: at the iteration that takes the transition the level is
\* low and has not changed for more than LONG_PRESS_MS, so that a release,
\* also one followed by a new press before the loop samples the pin again,
\* restarts the measurement.
C14_LongPressContinuous ==
  [][Operational /\ pc' = "config"
      => /\ resetPin = LOW
         /\ U32Gt(U32Sub(millis, resetPinSince), U32(LONG_PRESS_MS))]_vars

\* The step asked the network interface to reconnect.
Reconnects(o) == \E k \in 1..Len(o) : o[k] = <<"wifi", "reconnect">>

\* C15: an Operational device never enters Configuration mode because the
\* network is lost. The connectivity check runs when more than
\* WIFI_CHECK_MS have passed since the last one; with the network down it
\* asks for a reconnect and clears the connectivity flag, with the network
\* up it sets the flag, and in both cases the loop goes on. The only step
\* from Operational to Configuration is the loop's recognition of the long
\* press.
C15_NetworkLossStaysOperational ==
  [][/\ (op' = "loopTimeouts"
          => LET due == U32Gt(U32Sub(millis, lastCheck), U32(WIFI_CHECK_MS))
             IN /\ pc' = "button"
                /\ (due /\ ~wifiStatus => Reconnects(out') /\ ~wifiOk' /\ lastCheck' = millis')
                /\ (due /\ wifiStatus => ~Reconnects(out') /\ wifiOk' /\ lastCheck' = millis')
                /\ (~due => ~Reconnects(out') /\ wifiOk' = wifiOk /\ lastCheck' = lastCheck))
     /\ (Operational /\ pc' = "config" => op' = "loopPoll" /\ LongPress(Now))
     /\ (Operational /\ op' = "wifi" => pc' = pc)]_vars

\* The check found the network down, asked for a reconnect and the loop
\* went on.
C15_Witness ==
  /\ op = "loopTimeouts" /\ pc = "button"
  /\ ~wifiStatus /\ ~wifiOk /\ Reconnects(out) /\ lastCheck = millis

\* C16: after n calls of logOperation on a freshly reset log, slot i
\* (0 <= i < min(n, LOG_SIZE)) holds the (i+1)-th most recent entry as it
\* was passed, the slots from min(n, LOG_SIZE) on are unused (timestamp 0),
\* and older entries are gone.
C16_LogKeepsNewestFive ==
  \A i \in 1..LOG_SIZE :
     operationLog[i] = IF i <= Len(recorded) THEN recorded[i] ELSE EmptyLogEntry

\* Six calls left the five most recent entries, newest first; the oldest
\* is in no slot.
C16_Witness ==
  /\ Len(recorded) = LOG_SIZE + 1
  /\ operationLog = SubSeq(recorded, 1, LOG_SIZE)
  /\ \A i \in 1..LOG_SIZE : operationLog[i] # recorded[LOG_SIZE + 1]

\* What the report shows of a log entry e at time now.
Rendered(e, now) ==
  <<IF e.operation = "LUCE_ACCESA" THEN "LUCE ACCESA" ELSE "PORTA APERTA",
    e.userName, formatTimeAgo(U32Sub(now, e.timestamp))>>

\* C17: the remote log report lists exactly the entries recorded and not
\* yet evicted, newest first, whatever millis() read when they were
\* recorded, and no unused slot.
C17_ReportListsRecorded ==
  [][op' = "handleMostraLog"
      => out'[1] = <<"tg", "log", S111,
                     [i \in 1..Min(Len(recorded), LOG_SIZE) |-> Rendered(recorded[i], millis)]>>]_vars

\* The decimal numeral of a natural number.
RECURSIVE ToDecimal(_)
ToDecimal(n) ==
  IF n < 10 THEN <<Digits[n + 1]>> ELSE ToDecimal(n \div 10) \o <<Digits[(n % 10) + 1]>>

\* C18: parsing a comma-separated list of k decimal numerals yields the
\* first min(k, MAX_USERS) identifiers, in their order: the count is
\* min(k, MAX_USERS) and the i-th stored identifier is the number the i-th
\* numeral denotes.
C18_ParseKeepsFirstTen ==
  [][op' = "setup"
      => LET tokens == strtok(BootLoad.userConfig.authorizedUsers)
         IN /\ Len(authorizedUsers') = Min(Len(tokens), MAX_USERS)
            /\ \A i \in 1..Len(authorizedUsers') :
                  authorizedUsers'[i] >= 0 /\ ToDecimal(authorizedUsers'[i]) = tokens[i]]_vars

\* The identifiers in the authorized set.
AuthorizedSet(users) == {users[i] : i \in 1..Len(users)}

ProbeIds == {-1, 0, 11, 22, 33, 111, 222, LONG_MAX}

\* C19: isAuthorizedUser is false for every id when the authorized set is
\* empty and true exactly for the ids that are in the set; the router
\* denies an item exactly when the test of its origin id is false.
C19_AuthorizedExactlyWhenListed ==
  [][/\ (authorizedUsers' = <<>> => \A id \in ProbeIds : ~isAuthorizedUser(Dev', id))
     /\ \A id \in ProbeIds :
           isAuthorizedUser(Dev', id) <=> id \in AuthorizedSet(authorizedUsers')
     /\ (OneItem(op', inp') /\ Item(inp').type \in {"message", "callback_query"}
          => (Denied(out', Item(inp'))
                <=> toInt(Item(inp').chat_id) \notin AuthorizedSet(authorizedUsers)))]_vars

\* An item was denied by a device whose authorized set is empty.
C19_Witness ==
  /\ op = "loopPoll" /\ Len(inp.polls) = 1 /\ inp.polls[1].n = 1
  /\ authorizedUsers = <<>> /\ Denied(out, Item(inp))

\* C20: for every persisted block whose configured flag is not the byte
\* of `true`, whatever its other bytes, the load at boot yields
\* configured = false, an empty network name, network secret, token and
\* principal list, and the secret "admin".
C20_LoadOfUnconfiguredBlock ==
  [][op' = "setup" /\ eeprom.configured # 1
      => userConfig' = [ZeroConfig EXCEPT !.configPassword = admin]]_vars

\* C21: in every state after the load at boot, whatever portal requests
\* were served since (login, save, change of secret with any new value, the
\* empty one included), the in-memory configuration-access secret is not
\* empty.
C21_SecretNeverEmpty == pc # "boot" => userConfig.configPassword # <<>>

\* Edge a came less than the debounce interval after edge b.
CloseEdges(a, b) == U32Gt(U32(interruptDebounceDelay), U32Sub(a.t, b.t))

\* C22: two falling edges less than interruptDebounceDelay apart, the first
\* of which does not itself come that close after an earlier edge, raise
\* the pending-activation flag exactly once, whether or not the loop
\* cleared the flag between them: exactly one of the two is accepted.
C22_TwoCloseEdgesOneActivation ==
  \A i \in 1..(Len(edgeLog) - 1) :
     LET later == edgeLog[i]
         earlier == edgeLog[i + 1]
         quiet == i + 2 > Len(edgeLog) \/ ~CloseEdges(earlier, edgeLog[i + 2])
     IN CloseEdges(later, earlier) /\ quiet => (earlier.accepted # later.accepted)

\* An edge was accepted before.
AcceptedBefore(log) == \E i \in 1..Len(log) : log[i].accepted

\* The time of the most recent accepted edge.
LastAccepted(log) ==
  log[CHOOSE i \in 1..Len(log) : log[i].accepted /\ \A j \in 1..(i - 1) : ~log[j].accepted].t

\* C23: the interrupt handler ignores an edge only when it comes less than
\* interruptDebounceDelay after the previously accepted edge; every other
\* edge, one exactly interruptDebounceDelay after it and the first edge
\* since boot included, raises the pending-activation flag and becomes the
\* previously accepted edge.
C23_EdgeIgnoredOnlyWithinDebounce ==
  [][op' = "buttonISR"
      => IF AcceptedBefore(edgeLog)
              /\ U32Gt(U32(interruptDebounceDelay), U32Sub(millis, LastAccepted(edgeLog)))
           THEN /\ buttonInterruptFlag' = buttonInterruptFlag
                /\ lastInterruptTime' = lastInterruptTime
           ELSE buttonInterruptFlag' /\ lastInterruptTime' = millis]_vars


\* The remote items that ask for an actuator.
IsActuatorItem(m) ==
  \/ m.type = "message" /\ m.text \in {"/apri", "/luce"}
  \/ m.type = "callback_query" /\ m.text \in {"APRI_PORTA", "ACCENDI_LUCE"}

\* What a dispatch of item m has to emit, in order.
DispatchEffects(m) ==
  LET door == m.text \in {"/apri", "APRI_PORTA"}
      what == IF door THEN "porta_aperta" ELSE "luce_accesa"
  IN <<<<"relay", IF door THEN "porta" ELSE "luce", HIGH>>>>
     \o (IF m.type = "callback_query" THEN <<<<"cb", what>>>> ELSE <<>>)
     \o <<<<"tg", what, m.chat_id>>,
          <<"log", toInt(m.chat_id), IF door THEN "PORTA_APERTA" ELSE "LUCE_ACCESA", m.from_name>>,
          <<"beep", "confirmation">>,
          <<"tg", "menu", m.chat_id>>>>

\* The number of relay activations among the effects es.
Activations(es) == Cardinality({i \in 1..Len(es) : es[i][1] = "relay" /\ es[i][3] = HIGH})

\* The time the confirmation melody blocks for, in ms.
MelodyMs == 1250

\* C24: a poll that brings one actuator item from an authorized origin
\* activates the actuator, answers, appends exactly one log entry with the
\* origin's id and name, sounds the confirmation and shows the menu again, in
\* this order and with a pause between the melody and the menu; and every
\* step inserts as many log entries as it activates actuators.
C24_DispatchSequence ==
  [][/\ (/\ op' = "loopPoll" /\ pc = "loop" /\ PollRuns(Dev)
         /\ Len(inp'.polls) = 1 /\ inp'.polls[1].n = 1
         /\ IsActuatorItem(inp'.polls[1].msgs[1])
         /\ isAuthorizedUser(Dev, toInt(inp'.polls[1].msgs[1].chat_id)))
        => LET m == inp'.polls[1].msgs[1]
           IN /\ out' = <<<<"poll">>>> \o DispatchEffects(m)
              /\ Len(recorded') = Len(recorded) + 1
              /\ recorded'[1].chatId = toInt(m.chat_id)
              /\ recorded'[1].userName = m.from_name
              /\ U32Gt(U32Sub(millis', millis), U32(inp'.took + MelodyMs))
     /\ Activations(out') = Len(recorded') - (IF pc' = "boot" \/ pc = "boot" THEN 0 ELSE Len(recorded))]_vars


\* The answers that tell an origin it is not authorized.
Denials(m) == {<<"tg", "accesso_negato", m.chat_id>>, <<"cb", "non_autorizzato">>}

\* C25: a poll that brings one text command or one callback from an origin
\* that is not authorized answers with the denial, sounds the error melody
\* and does nothing else: no relay, no timestamp and no log entry changes.
C25_CallbackGateDenies ==
  [][(/\ op' = "loopPoll" /\ pc = "loop" /\ PollRuns(Dev)
      /\ Len(inp'.polls) = 1 /\ inp'.polls[1].n = 1
      /\ inp'.polls[1].msgs[1].type \in {"message", "callback_query"}
      /\ ~isAuthorizedUser(Dev, toInt(inp'.polls[1].msgs[1].chat_id)))
     => /\ Len(out') = 3
        /\ out'[1] = <<"poll">>
        /\ out'[2] \in Denials(inp'.polls[1].msgs[1])
        /\ out'[3] = <<"beep", "error">>
        /\ UNCHANGED <<relayPorta, relayLuce, portaOpenTime, luceOnTime, operationLog, recorded>>]_vars


\* A canonical decimal numeral of at most 18 digits: a non-negative integer
\* below 2^63.
IsInt64Numeral(s) ==
  /\ Len(s) \in 1..18
  /\ \A i \in 1..Len(s) : IsDigit(s[i])
  /\ (Len(s) > 1 => s[1] # "0")

\* C26: identifiers keep their value as 64-bit integers: each stored
\* identifier denotes the number its numeral in the list denotes, and a
\* remote item is served only if its origin id is, digit for digit, one of
\* the listed identifiers.
C26_IdentifiersKeep64Bits ==
  [][/\ (op' = "setup" /\ pc' = "loop")
         => LET tokens == strtok(BootLoad.userConfig.authorizedUsers)
            IN \A i \in 1..Len(authorizedUsers') :
                  IsInt64Numeral(tokens[i])
                    => authorizedUsers'[i] >= 0 /\ ToDecimal(authorizedUsers'[i]) = tokens[i]
     /\ (/\ OneItem(op', inp')
         /\ Item(inp').type \in {"message", "callback_query"}
         /\ IsInt64Numeral(Item(inp').chat_id)
         /\ ~Denied(out', Item(inp')))
         => Item(inp').chat_id \in ListedIds(userConfig)]_vars


\* C27: in Operational mode each relay is asserted exactly when its
\* armed-since timestamp is not zero.
C27_AssertedIffArmed ==
  Operational => /\ (relayPorta = HIGH <=> portaOpenTime # U32Zero)
                 /\ (relayLuce = HIGH <=> luceOnTime # U32Zero)


\* The relay named x was de-asserted among the effects es.
Deasserted(es, x) == \E k \in 1..Len(es) : es[k] = <<"relay", x, LOW>>

\* The step handled one item that asks for the door (light) from an origin
\* the device accepts.
DoorItem(o, i) ==
  /\ OneItem(o, i) /\ pc = "loop" /\ PollRuns(Dev)
  /\ \/ (Item(i).type = "message" /\ Item(i).text = "/apri")
     \/ (Item(i).type = "callback_query" /\ Item(i).text = "APRI_PORTA")
  /\ isAuthorizedUser(Dev, toInt(Item(i).chat_id))

LightItem(o, i) ==
  /\ OneItem(o, i) /\ pc = "loop" /\ PollRuns(Dev)
  /\ \/ (Item(i).type = "message" /\ Item(i).text = "/luce")
     \/ (Item(i).type = "callback_query" /\ Item(i).text = "ACCENDI_LUCE")
  /\ isAuthorizedUser(Dev, toInt(Item(i).chat_id))

\* C28: an activation at time t2, of an actuator armed or not, leaves its
\* timestamp at t2 and its relay asserted, with no de-assertion on the way;
\* a relay is de-asserted only by a tick that finds now - timestamp above
\* the timeout, which returns the timestamp to 0; and a relay that is not
\* asserted is not de-asserted again.
C28_ReactivationRestartsTimer ==
  [][/\ DoorItem(op', inp')
          => /\ portaOpenTime' = U32Add(millis, U32(inp'.took))
             /\ relayPorta' = HIGH /\ ~Deasserted(out', "porta")
     /\ op' = "loopButtonClear"
          => /\ portaOpenTime' = millis
             /\ relayPorta' = HIGH /\ ~Deasserted(out', "porta")
     /\ LightItem(op', inp')
          => /\ luceOnTime' = U32Add(millis, U32(inp'.took))
             /\ relayLuce' = HIGH /\ ~Deasserted(out', "luce")
     /\ (relayPorta = HIGH /\ relayPorta' = LOW /\ pc' # "boot")
          => /\ op' = "loopTimeouts"
             /\ U32Gt(U32Sub(millis, portaOpenTime), U32(PORTA_TIMEOUT))
             /\ portaOpenTime' = U32Zero
     /\ (relayLuce = HIGH /\ relayLuce' = LOW /\ pc' # "boot")
          => /\ op' = "loopTimeouts"
             /\ U32Gt(U32Sub(millis, luceOnTime), U32(LUCE_TIMEOUT))
             /\ luceOnTime' = U32Zero
     /\ Deasserted(out', "porta") => relayPorta = HIGH /\ relayPorta' = LOW
     /\ Deasserted(out', "luce") => relayLuce = HIGH /\ relayLuce' = LOW]_vars

\* The door was activated from the chat while it was still armed by the
\* button: the button's melody had just ended and no tick had run since.
C28_Witness ==
  /\ op = "loopPoll" /\ Len(recorded) >= 2
  /\ recorded[1].operation = "PORTA_APERTA" /\ recorded[2].operation = "PORTA_PULSANTE"
  /\ recorded[1].timestamp = U32Add(recorded[2].timestamp, U32(MelodyMs + inp.took))
  /\ relayPorta = HIGH /\ portaOpenTime = recorded[1].timestamp
  /\ portaOpenTime # recorded[2].timestamp


\* The tick at now comes less than 2^16 ms after t, wrapped or not.
Shortly(now, t) == now[1] \in {t[1], (t[1] + 1) % B16}

\* The milliseconds from t to such a now, counted through the wrap.
MsSince(now, t) == IF now[1] = t[1] THEN now[2] - t[2] ELSE (B16 - t[2]) + now[2]

\* C29: a tick that finds an actuator armed at a non-zero time t, before
\* or after the counter has wrapped, de-asserts it exactly when the
\* milliseconds elapsed since t, counted through the wrap, exceed the
\* timeout.
C29_TickAcrossWrap ==
  [][op' = "loopTimeouts"
      => /\ (relayPorta = HIGH /\ portaOpenTime # U32Zero /\ Shortly(millis, portaOpenTime))
              => (relayPorta' = LOW <=> MsSince(millis, portaOpenTime) > PORTA_TIMEOUT)
         /\ (relayLuce = HIGH /\ luceOnTime # U32Zero /\ Shortly(millis, luceOnTime))
              => (relayLuce' = LOW <=> MsSince(millis, luceOnTime) > LUCE_TIMEOUT)]_vars

\* A tick after the wrap has de-asserted the door, armed before the wrap.
C29_Witness ==
  /\ op = "loopTimeouts" /\ Deasserted(out, "porta") /\ relayPorta = LOW
  /\ millis[1] = 0
  /\ Len(recorded) >= 1 /\ recorded[1].operation = "PORTA_APERTA"
  /\ recorded[1].timestamp[1] = B16 - 1


\* The relay named x was switched among the effects es.
Switched(es, x) == \E k \in 1..Len(es) : es[k][1] = "relay" /\ es[k][2] = x

DoorOf(d) == <<d.relayPorta, d.portaOpenTime>>

LightOf(d) == <<d.relayLuce, d.luceOnTime>>

\* C30: a step that does not switch the door relay leaves the door's relay
\* and timestamp as they were, whatever it does to the light, and
\* symmetrically; activating one actuator leaves the other as it is; and
\* what a tick does to one actuator is what it would do were the other
\* idle.
C30_DoorAndLightIndependent ==
  [][/\ (pc' # "boot" /\ ~Switched(out', "porta")) => DoorOf(Dev') = DoorOf(Dev)
     /\ (pc' # "boot" /\ ~Switched(out', "luce")) => LightOf(Dev') = LightOf(Dev)
     /\ LightOf(apriPorta(Dev')) = LightOf(Dev')
     /\ DoorOf(accendiLuce(Dev')) = DoorOf(Dev')
     /\ LightOf(handleTimeouts(Dev'))
          = LightOf(handleTimeouts([Dev' EXCEPT !.relayPorta = LOW, !.portaOpenTime = U32Zero]))
     /\ DoorOf(handleTimeouts(Dev'))
          = DoorOf(handleTimeouts([Dev' EXCEPT !.relayLuce = LOW, !.luceOnTime = U32Zero]))]_vars

\* The light was activated while the door was armed, and the door is still
\* armed since the time it was activated at.
C30_Witness ==
  /\ op = "loopPoll" /\ Len(recorded) >= 2
  /\ recorded[1].operation = "LUCE_ACCESA" /\ recorded[2].operation = "PORTA_APERTA"
  /\ relayLuce = HIGH /\ luceOnTime = recorded[1].timestamp
  /\ relayPorta = HIGH /\ portaOpenTime = recorded[2].timestamp
  /\ portaOpenTime # U32Zero /\ portaOpenTime # luceOnTime


C32_UnconfiguredRecordZeroed ==
  userConfig.configured = 0 => userConfig = ZeroConfig

\* C32, amended: a configuration record in memory whose configured flag is
\* false has its network name, network secret, token and principal list
\* zeroed (its configuration-access secret need not be).
C32_UnconfiguredRecordZeroedButSecret ==
  userConfig.configured = 0
    => /\ userConfig.ssid = <<>> /\ userConfig.password = <<>>
       /\ userConfig.botToken = <<>> /\ userConfig.authorizedUsers = <<>>

\* The device has loaded an erased flash sector, which it found not
\* configured, and serves the portal with the default secret.
C32_Witness ==
  /\ op = "setup" /\ pc = "config" /\ eeprom = ErasedImage
  /\ userConfig.configured = 0 /\ userConfig.configPassword = admin


\* The handlers of the portal that write a record.
PortalWrites == {"handleSave", "handleChangePasswordPost", "handleResetEEPROM"}

\* The handlers of the portal.
PortalOps ==
  PortalWrites \cup {"handleRoot", "handleLogin", "handleChangePassword", "handleNotFound"}

\* C33: a step taken in Operational mode, other than a loss of power,
\* leaves the configuration record in memory, the persisted record and the
\* authorized set as they were; the persisted record changes only in a
\* writing handler of the portal; and the portal's handlers run only in
\* Configuration mode.
C33_OperationalLeavesConfiguration ==
  [][/\ (Operational /\ pc' # "boot") => UNCHANGED <<userConfig, eeprom, authorizedUsers>>
     /\ eeprom' # eeprom => op' \in PortalWrites
     /\ op' \in PortalOps => pc = "config"]_vars

\* A remote item from an origin that is not listed was handled in
\* Operational mode by a configured device.
C33_Witness ==
  /\ op = "loopPoll" /\ Len(inp.polls) = 1 /\ inp.polls[1].n = 1
  /\ Denied(out, Item(inp))
  /\ userConfig.configured = 1 /\ eeprom = userConfig /\ authorizedUsers # <<>>


\* C34: a poll that brings one item from an origin the device accepts
\* activates one actuator and records one log entry when the item's token
\* is exactly /apri, /luce, APRI_PORTA or ACCENDI_LUCE, and otherwise leaves
\* both relays, both timestamps and the log as they were.
C34_DispatchByExactToken ==
  [][(/\ OneItem(op', inp') /\ pc = "loop" /\ PollRuns(Dev)
      /\ Item(inp').type \in {"message", "callback_query"}
      /\ isAuthorizedUser(Dev, toInt(Item(inp').chat_id)))
     => IF IsActuatorItem(Item(inp'))
          THEN Activations(out') = 1 /\ Len(recorded') = Len(recorded) + 1
          ELSE /\ Activations(out') = 0
               /\ UNCHANGED <<relayPorta, relayLuce, portaOpenTime, luceOnTime,
                              operationLog, recorded>>]_vars

\* A case variant of /apri from a listed origin was answered as an unknown
\* command.
C34_Witness ==
  /\ op = "loopPoll" /\ Len(inp.polls) = 1 /\ inp.polls[1].n = 1
  /\ Item(inp).text = "/APRI" /\ Item(inp).chat_id = S111
  /\ out = <<<<"poll">>, <<"tg", "comando_non_riconosciuto", S111>>>>
  /\ relayPorta = LOW /\ recorded = <<>>


\* ------------------------------------------------------------------------
\* The door button of a configured device whose loop keeps running
\* ------------------------------------------------------------------------
LoopPollQuiet == LoopPollWith({<<>>}, {0})

UpdateDisplaySlow == UpdateDisplayTakes({interruptDebounceDelay + 1})

NextEdges ==
  \/ SetupRouter
  \/ LoopPollQuiet
  \/ LoopTimeouts
  \/ LoopButtonTest
  \/ LoopButtonClear
  \/ ButtonEdges
  \/ UpdateDisplaySlow
  \/ PowerCycle

FairSpecButton == InitRouter /\ [][NextEdges]_vars /\ WF_vars(LoopStep)

\* The entries of the history rec that local activations recorded.
LocalActivations(rec) ==
  Cardinality({k \in 1..Len(rec) : rec[k].operation = "PORTA_PULSANTE"})

\* The edges of the history log that the interrupt handler accepted.
AcceptedEdges(log) == Cardinality({k \in 1..Len(log) : log[k].accepted})

\* C35: the loop activates the door locally only in the step that clears
\* the pending flag, which it reaches once per iteration through the test of
\* the flag and which activates the door once and records one entry with
\* principal id 0; there are never more local activations than accepted
\* edges; an accepted edge sets the flag, which only that step clears, also
\* when the edge falls between the test and the clearing; and while the
\* device stays Operational a pending flag leads to the step that clears it.
C35_EdgesAndLocalActivations ==
  /\ [][/\ op' = "loopButtonClear"
             => /\ pc = "clear" /\ pc' = "loop"
                /\ buttonInterruptFlag /\ ~buttonInterruptFlag'
                /\ Activations(out') = 1 /\ out'[1] = <<"relay", "porta", HIGH>>
                /\ Len(recorded') = Len(recorded) + 1
                /\ recorded'[1].chatId = 0 /\ recorded'[1].operation = "PORTA_PULSANTE"
        /\ LocalActivations(recorded') > LocalActivations(recorded) => op' = "loopButtonClear"
        /\ (pc' = "clear" /\ pc # "clear") => op' = "loopButtonTest" /\ buttonInterruptFlag
        /\ (op' = "loopButtonTest" /\ buttonInterruptFlag) => pc' = "clear"
        /\ LocalActivations(recorded') <= AcceptedEdges(edgeLog')
        /\ (op' = "buttonISR" /\ edgeLog'[1].accepted) => buttonInterruptFlag'
        /\ (buttonInterruptFlag /\ ~buttonInterruptFlag' /\ pc' # "boot")
             => op' = "loopButtonClear"]_vars
  /\ (buttonInterruptFlag /\ Operational)
        ~> (~Operational \/ (op = "loopButtonClear" /\ ~buttonInterruptFlag))

\* An edge was accepted between the test of the flag and its clearing, as
\* the second accepted edge, and one local activation followed.
C35_Witness ==
  /\ op = "loopButtonClear" /\ ~buttonInterruptFlag
  /\ AcceptedEdges(edgeLog) = 2 /\ LocalActivations(recorded) = 1
  /\ edgeLog[1].accepted /\ edgeLog[1].t = recorded[1].timestamp


\* C36: in Configuration mode both relays are de-asserted.
C36_ConfigurationModeRelaysOff ==
  pc = "config" => relayPorta = LOW /\ relayLuce = LOW


\* C37: at the start of a loop iteration in Operational mode, when more than
\* BOT_REQUEST_DELAY ms have passed since the previous poll, counted modulo
\* 2^32, the poll is due.
C37_PollDueAfterDelay ==
  (pc = "loop" /\ U32Gt(U32Sub(millis, lastTimeBotRan), U32(BOT_REQUEST_DELAY)))
    => PollDue(Dev)


\* C38: after a POST /changepw that the handler accepts, with new secret p,
\* a POST /login with cfgpass = p in the same session sets the
\* authenticated flag, and one with the previous secret, when it is not p,
\* is refused.
C38_ChangeThenLogin ==
  [][(op' = "handleChangePasswordPost" /\ Answered(out', 200))
      => /\ handleLogin(Dev', [cfgpass |-> inp'.newpw]).passwordOk
         /\ (inp'.oldpw # inp'.newpw
               => LET r == handleLogin([Dev' EXCEPT !.passwordOk = FALSE, !.out = <<>>],
                                       [cfgpass |-> inp'.oldpw])
                  IN ~r.passwordOk /\ Answered(r.out, 403))]_vars


\* ------------------------------------------------------------------------
\* The portal with two clients, of which only A ever submits a login
\* ------------------------------------------------------------------------
Clients == {"A", "B"}

\* The request req as client c sends it.
By(c, req) == [k \in DOMAIN req \cup {"client"} |-> IF k = "client" THEN c ELSE req[k]]

GetRootBy == \E c \in Clients : Portal("handleRoot", handleRoot(Now), By(c, NoInput))

PostLoginByA == PostLoginWith({By("A", [cfgpass |-> s]) : s \in {admin, pw, <<>>}})

PostSaveBy ==
  PostSaveWith({By(c, [ssid |-> <<"n">>, pass |-> <<"s">>, token |-> <<"t">>, users |-> u]) :
                  c \in Clients, u \in {S111, S222}})

NextClients ==
  \/ SetupPortal
  \/ PowerCycle
  \/ GetRootBy
  \/ PostLoginByA
  \/ PostSaveBy

SpecClients == InitPortal /\ [][NextClients]_vars

\* C39: client B, which has not submitted a login, is answered the login
\* page on GET / and 403 on POST /save, whatever client A has done.
C39_AuthenticationPerClient ==
  [][/\ (op' = "handleRoot" /\ inp'.client = "B") => out' = <<(<<"http", 200, "login">>)>>
     /\ (op' = "handleSave" /\ inp'.client = "B")
          => Answered(out', 403) /\ eeprom' = eeprom /\ pc' = "config"]_vars


\* C40: a poll cycle ends with the loop going on to the scheduler tick, and
\* a cycle whose first getUpdates call reports an error handles no item:
\* it emits nothing but the poll and leaves relays and log as they were.
C40_PollCycleReturns ==
  [][(op' = "loopPoll" /\ pc = "loop" /\ PollRuns(Dev))
      => /\ pc' = "timeouts"
         /\ (inp'.polls # <<>> /\ inp'.polls[1].n < 0)
              => /\ out' = <<<<"poll">>>>
                 /\ UNCHANGED <<relayPorta, relayLuce, portaOpenTime, luceOnTime,
                                operationLog, recorded>>]_vars

====
